---- MODULE Spec2Model ----
(***************************************************************************)
(* Retrieval core of scripts/rag_server.py: index build and embedding      *)
(* cache, hybrid retrieval, context assembly, citation labels and the      *)
(* /api/chat event stream.                                                 *)
(*                                                                         *)
(* Scores are exact rationals [n, d] with d > 0 (the source uses floats;   *)
(* rounding is not modelled).  Texts are sequences of atoms: word pieces   *)
(* and whitespace for titles and hits, single characters for the corpus.   *)
(***************************************************************************)
EXTENDS Integers, Sequences, FiniteSets, TLC

VARIABLES
    rin,        \* retrieve: the arguments of the call under study, or NoCall
    rout,       \* retrieve: the hit list returned, or NoResult
    fin,        \* format_context / _short_label / chunker: the arguments of the call, or NoCall
    fout,       \* format_context / _short_label / chunker: the value returned, or NoResult
    env_keys,   \* the API key variables set in os.environ or .env
    chat,       \* the /api/chat invocation being served: handler and stream_llm generator
    disk,       \* data/texts and data/inventory.json
    emb_cache,  \* data/.embedding_cache.npz
    G,          \* the module globals CHUNKS, BM25_INDEX, INDEX_STATS, EMBEDDINGS, _INDEX_BUILT
    use_emb,    \* _USE_EMBEDDINGS (false under --bm25-only)
    threads,    \* thread 0 runs startup(); the others serve one request each
    builds,     \* build_index calls made so far by this process
    index,      \* the tuple the latest build_index call returned
    writes,     \* times the pipeline has rewritten data/texts
    reported,   \* requests so far whose stream carried the missing-key error
    job,        \* 05b_extract_robust: the run of the script and how it stands
    tasks,      \* 05b_extract_robust: the future of each candidate document
    mainp,      \* 05b_extract_robust: the main thread (as_completed loop, _on_done)
    status,     \* 05b_extract_robust: status["docs"], the dict shared by the threads
    lock,       \* 05b_extract_robust: the holder of _status_lock
    files,      \* 05b_extract_robust: pipeline_status.json, data/texts/*, inventory flags
    stage,      \* 00_stage_pdfs: the run of the script, inventory.json and data/pdfs
    tr          \* 08_translate: the run of translate_doc and translation.json

vars == <<rin, rout, fin, fout, env_keys, chat,
          disk, emb_cache, G, use_emb, threads, builds, index, writes,
          reported, job, tasks, mainp, status, lock, files, stage, tr>>
scriptVars   == <<stage, tr>>
extractVars  == <<job, tasks, mainp, status, lock, files>>
serverVars   == <<disk, emb_cache, G, use_emb, threads, builds, index, writes>>
retrieveVars == <<rin, rout>>
contextVars  == <<fin, fout>>
chatVars     == <<env_keys, chat, reported>>

NoCall   == [call |-> "none"]
NoResult == [ret |-> "none"]

(***************************** bounds **************************************)
MaxChunks == 2      \* chunks in a retrieval call
MaxRaw    == 2      \* largest raw BM25 score (raw scores range over -1..MaxRaw)
MaxK      == 2      \* largest k passed to retrieve

(*************************** program constants *****************************)
TOP_K        == 20
BM25_WEIGHT  == 35      \* 0.35, in hundredths
EMBED_WEIGHT == 65      \* 0.65, in hundredths
WEIGHT_DEN   == 100     \* the weights sum to 1.0

(***************************** rationals ***********************************)
Rat(n, d)  == [n |-> n, d |-> d]
RLt(a, b)  == a.n * b.d < b.n * a.d
RLe(a, b)  == a.n * b.d <= b.n * a.d
RZero      == Rat(0, 1)
ROne       == Rat(1, 1)
InUnit(a)  == RLe(RZero, a) /\ RLe(a, ROne)

MIN_SCORE == Rat(25, 100)

(***************************** helpers *************************************)
SeqMax(s) == CHOOSE m \in {s[i] : i \in DOMAIN s} : \A i \in DOMAIN s : s[i] <= m

Perms(n) == {p \in [1..n -> 1..n] : \A i, j \in 1..n : i # j => p[i] # p[j]}

(***************************** retrieve ************************************)
\* bm25_scores: raw / max(raw) when max(raw) > 0, else raw / 1.0; zeros when
\* there is no index or the query has no tokens.
Bm25Scores(n, has_bm25, has_tokens, raw) ==
    IF has_bm25 /\ has_tokens
    THEN LET max_bm25 == IF SeqMax(raw) > 0 THEN SeqMax(raw) ELSE 1
         IN  [i \in 1..n |-> Rat(raw[i], max_bm25)]
    ELSE [i \in 1..n |-> RZero]

\* embed_scores: (sims + 1) / 2 with sims = embeddings @ q_emb, zeros when there
\* is no matrix or the query could not be embedded.
EmbedScores(n, has_emb, q_ok, sims) ==
    IF has_emb /\ q_ok
    THEN [i \in 1..n |-> Rat(sims[i] + 1, 2)]
    ELSE [i \in 1..n |-> RZero]

\* combined = BM25_WEIGHT * bm25_scores + EMBED_WEIGHT * embed_scores in hybrid
\* mode, bm25_scores alone otherwise.
Combined(n, has_emb, b, e) ==
    IF has_emb
    THEN [i \in 1..n |-> Rat(BM25_WEIGHT * b[i].n * e[i].d + EMBED_WEIGHT * e[i].n * b[i].d,
                             WEIGHT_DEN * b[i].d * e[i].d)]
    ELSE b

\* np.argsort(combined)[::-1]: the default sort is not stable, so every order
\* of the ordinals that is non-increasing in combined is a possible outcome.
ArgsortAsc(n, combined) ==
    {p \in Perms(n) : \A i \in 1..(n - 1) : RLe(combined[p[i]], combined[p[i + 1]])}
ArgsortDesc(n, combined) ==
    {p \in Perms(n) : \A i \in 1..(n - 1) : RLe(combined[p[i + 1]], combined[p[i]])}

\* if combined[i] < min_score: break
BelowThresholdInverted(score, min_score) == RLt(min_score, score)
BelowThreshold(score, min_score) == RLt(score, min_score)

\* if uid in seen_keys: continue
SeenNever(uid, seen_keys) == FALSE
Seen(uid, seen_keys) == uid \in seen_keys

\* The scan over top_idx: stop at the first score below min_score, skip a
\* (key, page) already seen, stop once k results are collected.
RECURSIVE ScanRanking(_, _, _, _)
ScanRanking(cx, pos, results, seen_keys) ==
    IF pos > Len(cx.top_idx) THEN results
    ELSE LET i   == cx.top_idx[pos]
             c   == cx.chunks[i]
             uid == <<c.key, c.page>>
         IN  IF BelowThreshold(cx.combined[i], cx.min_score) THEN results
             ELSE IF Seen(uid, seen_keys)
                  THEN ScanRanking(cx, pos + 1, results, seen_keys)
                  ELSE LET results2 == Append(results,
                                          [chunk    |-> c,
                                           ord      |-> i,
                                           score    |-> cx.combined[i],
                                           bm25     |-> cx.bm25_scores[i],
                                           semantic |-> cx.embed_scores[i]])
                       IN  IF Len(results2) >= cx.k THEN results2
                           ELSE ScanRanking(cx, pos + 1, results2, seen_keys \cup {uid})

\* retrieve(query, chunks, bm25, embeddings, k, min_score) for one outcome
\* top_idx of the argsort.  a carries the arguments and what the collaborators
\* (BM25Okapi.get_scores, the embedding model) answer for this query.
retrieve(a, top_idx) ==
    IF Len(a.chunks) = 0 THEN <<>>
    ELSE LET n == Len(a.chunks)
             b == Bm25Scores(n, a.has_bm25, a.has_tokens, a.raw)
             e == EmbedScores(n, a.has_emb, a.q_ok, a.sims)
             combined == Combined(n, a.has_emb, b, e)
         IN  ScanRanking([top_idx |-> top_idx, chunks |-> a.chunks, combined |-> combined,
                          bm25_scores |-> b, embed_scores |-> e,
                          min_score |-> a.min_score, k |-> a.k], 1, <<>>, {})

CombinedOf(a) ==
    LET n == Len(a.chunks)
    IN  Combined(n, a.has_emb, Bm25Scores(n, a.has_bm25, a.has_tokens, a.raw),
                 EmbedScores(n, a.has_emb, a.q_ok, a.sims))

(*********************** retrieve: calls under study ***********************)
Keys      == {<<"K1">>, <<"K2">>}
Pages     == {<<"1">>}
RawScores == (-1)..MaxRaw
Sims      == {-1, 0, 1}       \* cosine similarity of L2-normalised vectors
MinScores == {RZero, MIN_SCORE, Rat(1, 2)}

Zeros(n) == [i \in 1..n |-> 0]

\* The arguments a caller can pass, with what the collaborators answer: bm25
\* is None exactly when the chunk list is empty (build_index); the raw and
\* similarity vectors have one entry per chunk (indexes aligned with the
\* chunk list) and are left at zero when the code does not ask for them.
RetrieveCall(a) ==
    \E n \in 0..MaxChunks, tk \in BOOLEAN, em \in BOOLEAN, qk \in BOOLEAN :
      \E ch \in [1..n -> [key : Keys, page : Pages]],
         rw \in (IF tk /\ n > 0 THEN [1..n -> RawScores] ELSE {Zeros(n)}),
         sm \in (IF em /\ qk THEN [1..n -> Sims] ELSE {Zeros(n)}),
         k \in 0..MaxK, ms \in MinScores :
        a = [call |-> "retrieve", chunks |-> ch, has_bm25 |-> (n > 0), has_tokens |-> tk,
             has_emb |-> (em /\ n > 0), q_ok |-> qk, raw |-> rw, sims |-> sm,
             k |-> k, min_score |-> ms]

NoChat == [pc |-> "idle", query |-> <<>>, hits |-> <<>>, context |-> <<>>,
           events |-> <<>>, provider |-> "none", invoked |-> FALSE, ntok |-> 0]

RetrieveIdle == rin = NoCall /\ rout = NoResult
ContextIdle  == fin = NoCall /\ fout = NoResult
ChatIdle     == env_keys = {} /\ chat = NoChat /\ reported = 0
ExtractIdle  == /\ job = [n |-> 0, state |-> "idle", prev |-> "idle"] /\ tasks = <<>> /\ lock = "free"
                /\ mainp = [pc |-> "idle"] /\ status = <<>> /\ files = <<>>
ScriptsIdle  == stage = <<>> /\ tr = <<>>
ServerIdle   == /\ disk = 0 /\ emb_cache = [state |-> "absent"] /\ use_emb = TRUE
                /\ index = [loaded |-> FALSE] /\ builds = 0 /\ writes = 0
                /\ G = [built |-> FALSE] /\ threads = <<>>

InitRetrieve ==
    /\ RetrieveCall(rin)
    /\ rout = NoResult
    /\ ContextIdle
    /\ ChatIdle
    /\ ServerIdle
    /\ ExtractIdle
    /\ ScriptsIdle

ReturnRetrieve ==
    /\ rin # NoCall
    /\ rout = NoResult
    /\ \E top_idx \in ArgsortDesc(Len(rin.chunks), CombinedOf(rin)) :
           rout' = [ret |-> "hits", hits |-> retrieve(rin, top_idx)]
    /\ UNCHANGED <<rin, contextVars, chatVars, serverVars, extractVars, scriptVars>>

NextRetrieve == ReturnRetrieve

SpecRetrieve == InitRetrieve /\ [][NextRetrieve]_vars

(***************************** strings *************************************)
\* A string is a sequence of atoms: a word piece ("Book", "K1", ".pdf"), a
\* punctuation mark, or one whitespace character (" ", "\n").
IsWs(x) == x \in {" ", "\n"}

\* The members of the set of positions S that lie in lo..hi, in increasing
\* order.
RECURSIVE Ordered(_, _, _)
Ordered(S, lo, hi) ==
    IF lo > hi THEN <<>>
    ELSE IF lo = hi THEN (IF lo \in S THEN <<lo>> ELSE <<>>)
    ELSE LET mid == (lo + hi) \div 2
         IN  Ordered(S, lo, mid) \o Ordered(S, mid + 1, hi)

\* s[starts[n] .. ends[n]] for every n
Slices(s, starts, ends) == [n \in DOMAIN starts |-> SubSeq(s, starts[n], ends[n])]

\* The maximal runs of atoms of s that satisfy In, in order.
Runs(s, In(_)) ==
    Slices(s,
           Ordered({i \in DOMAIN s : In(s[i]) /\ (i = 1 \/ ~In(s[i - 1]))}, 1, Len(s)),
           Ordered({i \in DOMAIN s : In(s[i]) /\ (i = Len(s) \/ ~In(s[i + 1]))}, 1, Len(s)))

NonWs(s) == {i \in DOMAIN s : ~IsWs(s[i])}
First(S) == CHOOSE i \in S : \A j \in S : i <= j
Last(S)  == CHOOSE i \in S : \A j \in S : j <= i

StripTo(s, nonws) == IF nonws = {} THEN <<>> ELSE SubSeq(s, First(nonws), Last(nonws))
\* s.strip()
Strip(s) == StripTo(s, NonWs(s))

\* s.split(sep)[0]
RECURSIVE FirstField(_, _)
FirstField(s, sep) ==
    IF s = <<>> \/ Head(s) = sep THEN <<>>
    ELSE <<Head(s)>> \o FirstField(Tail(s), sep)

\* s.replace(x, "")
Remove(s, x) == SelectSeq(s, LAMBDA a : a # x)

\* s.split(): the words of s
SplitWs(s) == Runs(s, LAMBDA x : ~IsWs(x))

\* sep.join(parts[lo..hi])
RECURSIVE JoinRange(_, _, _, _)
JoinRange(parts, sep, lo, hi) ==
    IF lo > hi THEN <<>>
    ELSE IF lo = hi THEN parts[lo]
    ELSE LET mid == (lo + hi) \div 2
         IN  JoinRange(parts, sep, lo, mid) \o sep \o JoinRange(parts, sep, mid + 1, hi)

\* sep.join(parts)
Join(parts, sep) == JoinRange(parts, sep, 1, Len(parts))

\* s[:n] of a list
Take(s, n) == SubSeq(s, 1, IF n < Len(s) THEN n ELSE Len(s))

WordCount(s) == Len(SplitWs(s))

(************************** citation labels ********************************)
MAX_CTX_WORDS   == 5000
MIN_REMAINING   == 50      \* if remaining < 50: break
LABEL_WORDS     == 4       \* title.split()[:4]

None   == <<"<None>">>     \* a missing dictionary entry
NoItem == [item |-> "none"]

\* d.get(field, default)
Get(v, default) == IF v = None THEN default ELSE v
\* d.get(field) or ""
GetOr(v) == IF v = None THEN <<>> ELSE v

\* build_index: meta = {title: inv_item.get("title", key), authors:
\* inv_item.get("authors", ""), year: inv_item.get("year", "")}, copied onto
\* every chunk of the document.
AttachMeta(c, inv_item) ==
    [key |-> c.key, page |-> c.page, text |-> c.text,
     title   |-> IF inv_item = NoItem THEN c.key ELSE Get(inv_item.title, c.key),
     authors |-> IF inv_item = NoItem THEN <<>>  ELSE Get(inv_item.authors, <<>>),
     year    |-> IF inv_item = NoItem THEN <<>>  ELSE Get(inv_item.year, <<>>)]

\* title = h.get("title", h["key"]).replace(".pdf", "").strip()
LabelTitleFromKey(h) == Strip(Remove(h.key, ".pdf"))
LabelTitle(h) == Strip(Remove(Get(h.title, h.key), ".pdf"))

_short_label(h) ==
    LET author == Strip(FirstField(GetOr(h.authors), ";"))
        year   == GetOr(h.year)
    IN  IF author # <<>> /\ year # <<>> THEN author \o <<",", " ">> \o year
        ELSE IF author # <<>> THEN author
        ELSE LET title == LabelTitle(h)
                 words == Take(SplitWs(title), LABEL_WORDS)
                 label == Join(words, <<" ">>)
                 label2 == IF Len(words) < Len(SplitWs(title))
                           THEN label \o <<"...">> ELSE label
             IN  IF year # <<>> THEN label2 \o <<",", " ">> \o year ELSE label2

(************************** format_context *********************************)
DocLabel(h) == <<"[">> \o _short_label(h) \o <<",", " ", "p.">> \o h.page \o <<"]">>

\* The loop goes on after the truncated hit instead of stopping.
RECURSIVE PackHitsNoStop(_, _, _, _)
PackHitsNoStop(hits, max_words, total, parts) ==
    IF hits = <<>> THEN parts
    ELSE LET h           == Head(hits)
             doc_label   == DocLabel(h)
             chunk_words == Len(SplitWs(h.text))
         IN  IF total + chunk_words > max_words
             THEN LET remaining == max_words - total
                  IN  IF remaining < MIN_REMAINING THEN parts
                      ELSE LET snippet == Join(Take(SplitWs(h.text), remaining), <<" ">>)
                           IN  PackHitsNoStop(Tail(hits), max_words, total,
                                   Append(parts, doc_label \o <<"\n">> \o snippet \o <<"...">>))
             ELSE PackHitsNoStop(Tail(hits), max_words, total + chunk_words,
                                 Append(parts, doc_label \o <<"\n">> \o h.text))

\* The loop of format_context: total counts the words of the chunk texts
\* packed so far; parts are the blocks packed so far.
RECURSIVE PackHits(_, _, _, _)
PackHits(hits, max_words, total, parts) ==
    IF hits = <<>> THEN parts
    ELSE LET h           == Head(hits)
             doc_label   == DocLabel(h)
             chunk_words == Len(SplitWs(h.text))
         IN  IF total + chunk_words > max_words
             THEN LET remaining == max_words - total
                  IN  IF remaining < MIN_REMAINING THEN parts
                      ELSE LET snippet == Join(Take(SplitWs(h.text), remaining), <<" ">>)
                           IN  Append(parts, doc_label \o <<"\n">> \o snippet \o <<"...">>)
             ELSE PackHits(Tail(hits), max_words, total + chunk_words,
                           Append(parts, doc_label \o <<"\n">> \o h.text))

format_context(hits, max_words) ==
    Join(PackHits(hits, max_words, 0, <<>>), <<"\n", "\n", "---", "\n", "\n">>)

(****************** format_context, _short_label: calls ********************)
MaxHits  == 2      \* hits passed to format_context
MaxUnits == 3      \* a chunk text has 1 word or up to MaxUnits * WordUnit words
WordUnit == 20

WordAt(i) == <<"w0", "w1", "w2", "w3", "w4">>[(i % 5) + 1]
Text(n)   == Join([i \in 1..n |-> <<WordAt(i)>>], <<" ">>)
TextLens  == {1} \cup {u * WordUnit : u \in 1..MaxUnits}

\* Inventory texts (03_inventory.py writes title, authors and year for every
\* item; each may be empty).  They are texts of the bibliography, none of
\* them the document key itself.
Titles  == { <<>>, <<" ">>, <<"Untitled">>, <<".pdf">>, <<"scan", ".pdf">>,
             <<"Book", " ", "of", " ", "Roads">>,
             <<"Book", " ", "of", " ", "Roads", " ", "and", " ", "Kingdoms">> }
Authors == { <<>>, <<" ">>, <<"Tibbetts">>, <<"Tibbetts", ";", " ", "Harley">>,
             <<";", " ", "Harley">> }
Years   == { <<>>, <<"1992">> }

InvItems == {NoItem} \cup [title : Titles, authors : Authors, year : Years]

FormatInvItems == { NoItem,
                    [title |-> <<"Untitled">>, authors |-> <<"Tibbetts">>, year |-> <<"1992">>],
                    [title |-> <<"Book", " ", "of", " ", "Roads", " ", "and", " ", "Kingdoms">>,
                     authors |-> <<>>, year |-> <<>>] }

MaxWordsChoices == {MIN_REMAINING, MIN_REMAINING + WordUnit, MAX_CTX_WORDS}

\* A hit as retrieve returns it to format_context: a chunk with its metadata.
FormatHits ==
    { AttachMeta([key |-> <<"K1">>, page |-> <<"3">>, text |-> Text(n)], it) :
          n \in TextLens, it \in FormatInvItems }

InitContext ==
    /\ \/ \E n \in 0..MaxHits : \E hits \in [1..n -> FormatHits] :
            \E max_words \in MaxWordsChoices :
              fin = [call |-> "format_context", hits |-> hits, max_words |-> max_words]
       \/ \E k \in Keys, it \in InvItems :
              fin = [call |-> "_short_label", inv_item |-> it,
                     h |-> AttachMeta([key |-> k, page |-> <<"3">>, text |-> Text(1)], it)]
    /\ fout = NoResult
    /\ RetrieveIdle
    /\ ChatIdle
    /\ ServerIdle
    /\ ExtractIdle
    /\ ScriptsIdle

FormatContext ==
    /\ fin.call = "format_context"
    /\ fout = NoResult
    /\ fout' = [ret |-> "block", block |-> format_context(fin.hits, fin.max_words)]
    /\ UNCHANGED <<fin, retrieveVars, chatVars, serverVars, extractVars, scriptVars>>

ShortLabel ==
    /\ fin.call = "_short_label"
    /\ fout = NoResult
    /\ fout' = [ret |-> "label", label |-> _short_label(fin.h)]
    /\ UNCHANGED <<fin, retrieveVars, chatVars, serverVars, extractVars, scriptVars>>

NextContext == FormatContext \/ ShortLabel

SpecContext == InitContext /\ [][NextContext]_vars

(****************************** chunking ***********************************)
CHUNK_WORDS     == 350
CHUNK_OVERLAP   == 50
MIN_CHUNK_WORDS == 20      \* if len(chunk.split()) < 20: continue

Min(a, b) == IF a < b THEN a ELSE b

\* The windows words[i : i + size] for i in range(0, len(words), step), each
\* joined with single spaces; windows of fewer than 20 words are dropped.
Windows(words, size, step) ==
    SelectSeq([j \in 1..((Len(words) + step - 1) \div step) |->
                  Join(SubSeq(words, (j - 1) * step + 1,
                              Min((j - 1) * step + size, Len(words))), <<" ">>)],
              LAMBDA t : Len(SplitWs(t)) >= MIN_CHUNK_WORDS)

\* One chunk per window.
PageChunks(wins, key, page) ==
    [j \in DOMAIN wins |-> [key |-> key, page |-> page, text |-> wins[j]]]

\* The windows follow each other without overlap (step = chunk_words).
chunk_text_no_overlap(text, key, page, chunk_words, overlap) ==
    PageChunks(Windows(SplitWs(text), chunk_words, chunk_words), key, page)

\* chunk_text(text, key, page, chunk_words, overlap): fixed-window chunking
chunk_text(text, key, page, chunk_words, overlap) ==
    PageChunks(Windows(SplitWs(text), chunk_words, chunk_words - overlap), key, page)

\* str(n) for a page number
PageStr(n) == << <<"1">>, <<"2">>, <<"3">>, <<"4">> >>[n]

\* sorted(data.keys(), key=int): a stable insertion sort of the pages by number
RECURSIVE InsertPage(_, _)
InsertPage(sorted, pg) ==
    IF sorted = <<>> THEN <<pg>>
    ELSE IF pg.page < Head(sorted).page THEN <<pg>> \o sorted
    ELSE <<Head(sorted)>> \o InsertPage(Tail(sorted), pg)

RECURSIVE SortPages(_)
SortPages(pages) ==
    IF pages = <<>> THEN <<>>
    ELSE InsertPage(SortPages(SubSeq(pages, 1, Len(pages) - 1)), pages[Len(pages)])

\* All elements of all pages in page order, each tagged with its page.
RECURSIVE Elements(_)
Elements(pages) ==
    IF pages = <<>> THEN <<>>
    ELSE [i \in DOMAIN Head(pages).elements |->
             [label |-> Head(pages).elements[i].label,
              text  |-> Head(pages).elements[i].text,
              page  |-> Head(pages).page]]
         \o Elements(Tail(pages))

\* current_texts closed into a section, if there are any
CloseSection(st) ==
    IF st.current_texts # <<>>
    THEN Append(st.sections, [heading |-> st.current_heading,
                              text    |-> Join(st.current_texts, <<" ">>),
                              pages   |-> st.current_pages])
    ELSE st.sections

\* A section header does not reset current_pages.
AddElementKeepsPages(st, label, text, page) ==
    IF text = <<>> THEN st
    ELSE IF label = "section_header"
    THEN [sections |-> CloseSection(st), current_heading |-> text,
          current_texts |-> <<>>, current_pages |-> st.current_pages]
    ELSE [st EXCEPT !.current_texts = Append(@, text),
                    !.current_pages = @ \cup {page}]

\* One pass of the loop over the elements, for an element with stripped text.
AddElement(st, label, text, page) ==
    IF text = <<>> THEN st
    ELSE IF label = "section_header"
    THEN [sections |-> CloseSection(st), current_heading |-> text,
          current_texts |-> <<>>, current_pages |-> {}]
    ELSE [st EXCEPT !.current_texts = Append(@, text),
                    !.current_pages = @ \cup {page}]

\* The loop over the elements: st holds sections, current_heading,
\* current_texts and current_pages.
RECURSIVE GroupSections(_, _)
GroupSections(els, st) ==
    IF els = <<>> THEN st
    ELSE GroupSections(Tail(els),
                       AddElement(st, Head(els).label, Strip(Head(els).text), Head(els).page))

SectionPage(sec) == IF sec.pages # {} THEN PageStr(First(sec.pages)) ELSE <<"1">>

HeadedChunks(texts, key, page_str, heading) ==
    [j \in DOMAIN texts |-> [key |-> key, page |-> page_str, text |-> texts[j],
                             heading |-> heading]]

\* One section's chunks: the section whole if it has at most max_words
\* words, else its sliding windows.
SectionChunksOf(sec, words, key, max_words, overlap) ==
    HeadedChunks(IF Len(words) <= max_words THEN <<sec.text>>
                 ELSE Windows(words, max_words, max_words - overlap),
                 key, SectionPage(sec), sec.heading)

SectionChunks(sec, key, max_words, overlap) ==
    SectionChunksOf(sec, SplitWs(sec.text), key, max_words, overlap)

RECURSIVE Flatten(_)
Flatten(ss) == IF ss = <<>> THEN <<>> ELSE Head(ss) \o Flatten(Tail(ss))

AllSectionChunks(sections, key, max_words, overlap) ==
    Flatten([i \in DOMAIN sections |-> SectionChunks(sections[i], key, max_words, overlap)])

NoSections == [sections |-> <<>>, current_heading |-> <<>>,
               current_texts |-> <<>>, current_pages |-> {}]

\* chunk_from_layout(layout_path, key, max_words, overlap); layout.ok is
\* false for a file that cannot be parsed, layout.pages are the entries with
\* a numeric key, in file order.
chunk_from_layout(layout, key, max_words, overlap) ==
    IF ~layout.ok THEN <<>>
    ELSE AllSectionChunks(
            CloseSection(GroupSections(Elements(SortPages(layout.pages)), NoSections)),
            key, max_words, overlap)

(***************************** index build *********************************)
FP_PREFIX   == 200      \* c["text"][:200]
EMBED_CHARS == 512      \* c["text"][:512]

\* A corpus text is written one character per atom, so s[:n] is Take(s, n).

\* _chunks_fingerprint(chunks): the md5 digest of the concatenated 200-character
\* prefixes; the digest is modelled by the digested string itself.
RECURSIVE _chunks_fingerprint(_)
_chunks_fingerprint(chunks) ==
    IF chunks = <<>> THEN <<>>
    ELSE Take(Head(chunks).text, FP_PREFIX) \o _chunks_fingerprint(Tail(chunks))

\* model.embed(texts) with texts = [c["text"][:512] for c in chunks]: one row
\* per chunk; a row is modelled by the text it was computed from.
EmbedRow(text) == Take(text, EMBED_CHARS)
Embed(chunks)  == [i \in DOMAIN chunks |-> EmbedRow(chunks[i].text)]

IsLetter(x) == x \in {"a", "b", "c", "d"}

\* re.findall(r"[a-zA-Z...']{2,}", text.lower()): the maximal runs of two or
\* more letters.
FindTokens(text) == SelectSeq(Runs(text, IsLetter), LAMBDA run : Len(run) >= 2)

\* tokenised, the corpus BM25Okapi is built over
Tokenised(chunks) == [i \in DOMAIN chunks |-> FindTokens(chunks[i].text)]

NoMatrix == [present |-> FALSE, rows |-> <<>>]
NoFile   == [state |-> "absent", fingerprint |-> <<>>, embeddings |-> <<>>]
CorruptFile == [state |-> "corrupt", fingerprint |-> <<>>, embeddings |-> <<>>]
\* a zip archive cut off before its central directory: np.load raises on it
TruncatedFile == [state |-> "truncated", fingerprint |-> <<>>, embeddings |-> <<>>]

\* page_texts.json is preferred to translation.json.
FallbackPageTextsOriginalFirst(doc) ==
    IF doc.page_texts.exists /\ doc.page_texts.ok THEN doc.page_texts.pages
    ELSE IF doc.translation.exists /\ doc.translation.ok /\ doc.translation.page_texts # <<>>
    THEN doc.translation.page_texts
    ELSE <<>>

\* The page texts build_index falls back to: translation.json's page_texts
\* when present and non-empty, else page_texts.json.
FallbackPageTexts(doc) ==
    IF doc.translation.exists /\ doc.translation.ok /\ doc.translation.page_texts # <<>>
    THEN doc.translation.page_texts
    ELSE IF doc.page_texts.exists /\ doc.page_texts.ok THEN doc.page_texts.pages
    ELSE <<>>

NonBlank(pages) == SelectSeq(pages, LAMBDA p : Strip(p.text) # <<>>)

RECURSIVE SumWords(_)
SumWords(pages) ==
    IF pages = <<>> THEN 0 ELSE WordCount(Head(pages).text) + SumWords(Tail(pages))

InvItem(key, inventory) == IF key \in DOMAIN inventory THEN inventory[key] ELSE NoItem

AttachAll(doc_chunks, inv_item) ==
    [i \in DOMAIN doc_chunks |-> AttachMeta(doc_chunks[i], inv_item)]

\* The fallback chunks of the non-blank page texts.
FallbackChunks(pages, key) ==
    Flatten([i \in DOMAIN pages |->
                chunk_text(pages[i].text, key, pages[i].page, CHUNK_WORDS, CHUNK_OVERLAP)])

\* The layout chunks when there are any; else the fallback chunks.
DocChunksOf(doc, inventory, layout_chunks, pages) ==
    IF layout_chunks # <<>>
    THEN [chunks   |-> AttachAll(layout_chunks, InvItem(doc.key, inventory)),
          semantic |-> Len(layout_chunks), fallback |-> 0, pages |-> 0, words |-> 0]
    ELSE [chunks   |-> AttachAll(FallbackChunks(pages, doc.key), InvItem(doc.key, inventory)),
          semantic |-> 0, fallback |-> Len(FallbackChunks(pages, doc.key)),
          pages    |-> Len(pages), words |-> SumWords(pages)]

\* One document directory: its chunks with metadata attached, and what it adds
\* to the stats.
DocChunks(doc, inventory) ==
    DocChunksOf(doc, inventory,
                IF doc.layout.exists
                THEN chunk_from_layout(doc.layout, doc.key, CHUNK_WORDS, CHUNK_OVERLAP)
                ELSE <<>>,
                NonBlank(FallbackPageTexts(doc)))

RECURSIVE SumField(_, _)
SumField(rs, f) == IF rs = <<>> THEN 0 ELSE Head(rs)[f] + SumField(Tail(rs), f)

\* sorted(TEXTS_ROOT.iterdir()): the document directories by name
KeyRank(k) == IF k = <<"K1">> THEN 1 ELSE 2
FirstDoc(docs) == CHOOSE x \in docs : \A y \in docs : KeyRank(x.key) <= KeyRank(y.key)
RECURSIVE SortedDocs(_)
SortedDocs(docs) ==
    IF docs = {} THEN <<>>
    ELSE <<FirstDoc(docs)>> \o SortedDocs(docs \ {FirstDoc(docs)})

PerDoc(docs, inventory) == [i \in DOMAIN docs |-> DocChunks(docs[i], inventory)]
AllChunks(per_doc) == Flatten([i \in DOMAIN per_doc |-> per_doc[i].chunks])

ScanOf(per_doc, all_chunks) ==
    [chunks |-> all_chunks,
     bm25   |-> Tokenised(all_chunks),
     stats  |-> [docs   |-> Len(SelectSeq(per_doc, LAMBDA r : r.chunks # <<>>)),
                 pages  |-> SumField(per_doc, "pages"),
                 chunks |-> Len(all_chunks),
                 words  |-> SumField(per_doc, "words"),
                 semantic_chunks |-> SumField(per_doc, "semantic"),
                 fallback_chunks |-> SumField(per_doc, "fallback")]]

ScanPerDoc(per_doc) == ScanOf(per_doc, AllChunks(per_doc))

\* build_index up to the embeddings: the chunk list over the document
\* directories in sorted order, the lexical index and the stats.
ScanCorpus(d) == ScanPerDoc(PerDoc(SortedDocs(d.docs), d.inventory))

\* The matrix just computed, saved with its fingerprint.
\* count records how many chunks the stored fingerprint was computed from.
Fresh(fingerprint, embeddings) ==
    [embeddings |-> [present |-> TRUE, rows |-> embeddings],
     cache |-> [state |-> "good", fingerprint |-> fingerprint, embeddings |-> embeddings,
                count |-> Len(embeddings)],
     loaded |-> FALSE]

\* A failed embedding yields an empty matrix instead of None.
EmbeddingsForNeverNone(chunks, fingerprint, cache, outcome) ==
    IF cache.state = "good" /\ cache.fingerprint = fingerprint
    THEN [embeddings |-> [present |-> TRUE, rows |-> cache.embeddings],
          cache |-> cache, loaded |-> TRUE]
    ELSE IF outcome = "ok" THEN Fresh(fingerprint, Embed(chunks))
    ELSE [embeddings |-> [present |-> TRUE, rows |-> <<>>], cache |-> cache,
          loaded |-> FALSE]

\* The cached matrix is returned whenever the file is readable, whatever
\* fingerprint it stores.
EmbeddingsForAnyFingerprint(chunks, fingerprint, cache, outcome) ==
    IF cache.state = "good"
    THEN [embeddings |-> [present |-> TRUE, rows |-> cache.embeddings],
          cache |-> cache, loaded |-> TRUE]
    ELSE IF outcome = "ok" THEN Fresh(fingerprint, Embed(chunks))
    ELSE IF outcome = "save_error"
    THEN [embeddings |-> NoMatrix, cache |-> CorruptFile, loaded |-> FALSE]
    ELSE [embeddings |-> NoMatrix, cache |-> cache, loaded |-> FALSE]

EmbeddingsFor(chunks, fingerprint, cache, outcome) ==
    IF cache.state = "good" /\ cache.fingerprint = fingerprint
    THEN [embeddings |-> [present |-> TRUE, rows |-> cache.embeddings],
          cache |-> cache, loaded |-> TRUE]
    ELSE IF outcome = "ok" THEN Fresh(fingerprint, Embed(chunks))
    ELSE IF outcome = "save_error"
    THEN [embeddings |-> NoMatrix, cache |-> CorruptFile, loaded |-> FALSE]
    ELSE [embeddings |-> NoMatrix, cache |-> cache, loaded |-> FALSE]

\* _build_embeddings(chunks) against the cache file: the cached matrix when the
\* stored fingerprint equals the chunks' fingerprint; else a fresh matrix,
\* saved with its fingerprint; None when embedding or saving fails, and a
\* failed save leaves an unreadable file.  outcome is what the embedding
\* library and the save do: "ok", "embed_error", "save_error".
_build_embeddings(chunks, cache, outcome) ==
    EmbeddingsFor(chunks, _chunks_fingerprint(chunks), cache, outcome)

IndexOf(sc, be) ==
    [chunks |-> sc.chunks, bm25 |-> sc.bm25, stats |-> sc.stats,
     embeddings |-> be.embeddings, cache |-> be.cache, loaded |-> be.loaded]

BuildFrom(sc, cache, use_embeddings, outcome) ==
    IndexOf(sc, IF use_embeddings /\ sc.chunks # <<>>
                THEN _build_embeddings(sc.chunks, cache, outcome)
                ELSE [embeddings |-> NoMatrix, cache |-> cache, loaded |-> FALSE])

\* build_index(use_embeddings): (chunks, bm25, stats, embeddings), and the
\* cache file it leaves.
build_index(d, cache, use_embeddings, outcome) ==
    BuildFrom(ScanCorpus(d), cache, use_embeddings, outcome)

(************************* corpora on disk **********************************)
MaxBuilds  == 3      \* index builds: starts of the server process
MaxWrites  == 1      \* pipeline runs that rewrite data/texts
MaxThreads == 2      \* request threads

Rep(word, n) == Join([i \in 1..n |-> word], <<" ">>)

NoArtifact == [exists |-> FALSE, ok |-> FALSE]
PageTexts(pages) == [exists |-> TRUE, ok |-> TRUE, pages |-> pages]

\* 80 two-letter words on one page (239 characters)
LongPage  == Rep(<<"a", "b">>, 80)
\* the same page with its last five words rewritten (from character 226 on)
LongPage2 == Rep(<<"a", "b">>, 75) \o <<" ">> \o Rep(<<"c", "d">>, 5)
\* two pages of 20 two-letter words (59 characters each)
PageX     == Rep(<<"a", "b">>, 20)
PageY     == Rep(<<"c", "d">>, 20)

FlatDoc(key, pages) ==
    [key |-> key, layout |-> NoArtifact, translation |-> NoArtifact,
     page_texts |-> PageTexts(pages)]

\* a document with layout elements on two pages (listed out of page order),
\* and page texts that are not used
LayoutDoc ==
    [key |-> <<"K2">>,
     layout |-> [exists |-> TRUE, ok |-> TRUE,
                 pages |-> << [page |-> 2, elements |->
                                 << [label |-> "text", text |-> Rep(<<"c", "d">>, 3)] >>],
                              [page |-> 1, elements |->
                                 << [label |-> "section_header", text |-> <<"a", "b">>],
                                    [label |-> "text", text |-> Rep(<<"a", "b">>, 20)] >>] >>],
     translation |-> NoArtifact,
     page_texts |-> PageTexts(<< [page |-> <<"1">>, text |-> PageY] >>)]

\* a document whose layout has a short run of text (a running title) before
\* its first section header, and no page texts
FrontMatterDoc ==
    [key |-> <<"K3">>,
     layout |-> [exists |-> TRUE, ok |-> TRUE,
                 pages |-> << [page |-> 1, elements |->
                                 << [label |-> "text", text |-> Rep(<<"c", "d">>, 3)],
                                    [label |-> "section_header", text |-> <<"a", "b">>],
                                    [label |-> "text", text |-> Rep(<<"a", "b">>, 20)] >>] >>],
     translation |-> NoArtifact,
     page_texts |-> NoArtifact]

Inventory ==
    [k \in {<<"K1">>} |->
        [title |-> <<"Book", " ", "of", " ", "Roads">>, authors |-> <<"Tibbetts">>,
         year |-> <<"1992">>]]

(************************** chunker: calls **********************************)
\* The chunker's functions applied to one input each: chunk_text to a page,
\* chunk_from_layout to a layout file, and the per-document part of
\* build_index to a document directory.  Window size and overlap are the
\* defaults.  Every word of an input is written as two letters and occurs
\* once, so a word of a chunk names the place it was taken from.
Letters == <<"a", "b", "c", "d", "e", "f", "g", "h", "i", "j", "k", "l", "m",
             "n", "o", "p", "q", "r", "s", "t", "u", "v", "w", "x", "y", "z">>
Word(i) == <<Letters[((i \div 26) % 26) + 1], Letters[(i % 26) + 1]>>

\* The words numbered lo..hi, separated by single spaces.
WordsText(lo, hi) == Join([i \in 1..(hi - lo + 1) |-> Word(lo + i - 1)], <<" ">>)

\* Page lengths around the window boundaries: below the minimum, one window,
\* a trailing window below / at the minimum, at / above the overlap, three
\* windows.
PageLengths == {19, 20, 300, 301, 319, 320, 350, 351, 400, 601, 650}

TextCalls ==
    { [call |-> "chunk_text", text |-> WordsText(1, n), key |-> <<"K1">>, page |-> <<"3">>] :
         n \in PageLengths }

\* Layout files with up to two pages of up to two regions each: a region is a
\* section header or a text region, with text or blank (05c_layout_heron
\* leaves "" on a region no word fell into).  The text of the k-th region of
\* page p is the one word numbered 10 * p + k, with blanks around it.
RegionKinds == {"header", "text", "blank_header", "blank_text"}

Region(kind, p, k) ==
    [label |-> IF kind \in {"header", "blank_header"} THEN "section_header" ELSE "text",
     text  |-> IF kind \in {"blank_header", "blank_text"} THEN <<" ">>
               ELSE <<" ">> \o Word(10 * p + k) \o <<"\n">>]

LayoutPage(p, kinds) ==
    [page |-> p, elements |-> [k \in DOMAIN kinds |-> Region(kinds[k], p, k)]]

KindLists == UNION {[1..n -> RegionKinds] : n \in 0..2}

SmallLayouts ==
    { <<LayoutPage(1, k1)>> : k1 \in KindLists }
      \cup { <<LayoutPage(1, k1), LayoutPage(2, k2)>> : k1 \in KindLists, k2 \in KindLists }
      \cup { <<LayoutPage(2, k2), LayoutPage(1, k1)>> : k1 \in KindLists, k2 \in KindLists }

\* A layout as _build_layout_elements of 05b_extract_robust writes it: one
\* text region per page holding the page's text, no section headers.  Here
\* two pages of n words each.
FlatLayout(n) ==
    << [page |-> 1, elements |-> <<[label |-> "text", text |-> WordsText(1, n)]>>],
       [page |-> 2, elements |-> <<[label |-> "text", text |-> WordsText(n + 1, 2 * n)]>>] >>

FlatLayoutPages == {10, 160, 200}

LayoutCalls ==
    { [call |-> "chunk_from_layout", layout |-> [exists |-> TRUE, ok |-> TRUE, pages |-> pgs],
       key |-> <<"K1">>, sectioning |-> TRUE] : pgs \in SmallLayouts }
      \cup
    { [call |-> "chunk_from_layout",
       layout |-> [exists |-> TRUE, ok |-> TRUE, pages |-> FlatLayout(n)],
       key |-> <<"K1">>, sectioning |-> FALSE] : n \in FlatLayoutPages }

\* Document directories: each artifact absent, unparsable, without text, or
\* with one page of 20 words.  The words of the three artifacts differ.
LayoutArtifacts ==
    { NoArtifact,
      [exists |-> TRUE, ok |-> FALSE, pages |-> <<>>],
      [exists |-> TRUE, ok |-> TRUE, pages |-> <<[page |-> 1, elements |-> <<>>]>>],
      [exists |-> TRUE, ok |-> TRUE,
       pages |-> <<[page |-> 1, elements |->
                      <<[label |-> "text", text |-> WordsText(101, 120)]>>]>>] }

TranslationArtifacts ==
    { NoArtifact,
      [exists |-> TRUE, ok |-> FALSE, page_texts |-> <<>>],
      [exists |-> TRUE, ok |-> TRUE, page_texts |-> <<>>],
      [exists |-> TRUE, ok |-> TRUE, page_texts |-> <<[page |-> <<"1">>, text |-> <<" ">>]>>],
      [exists |-> TRUE, ok |-> TRUE,
       page_texts |-> <<[page |-> <<"1">>, text |-> WordsText(201, 220)]>>] }

OriginalArtifacts ==
    { NoArtifact,
      [exists |-> TRUE, ok |-> FALSE, pages |-> <<>>],
      [exists |-> TRUE, ok |-> TRUE, pages |-> <<[page |-> <<"1">>, text |-> WordsText(301, 320)]>>] }

DocCalls ==
    { [call |-> "build_index", doc |-> [key |-> k, layout |-> l, translation |-> t,
                                        page_texts |-> o]] :
         k \in Keys, l \in LayoutArtifacts, t \in TranslationArtifacts,
         o \in OriginalArtifacts }

InitChunk ==
    /\ fin \in TextCalls \cup LayoutCalls \cup DocCalls
    /\ fout = NoResult
    /\ RetrieveIdle
    /\ ChatIdle
    /\ ServerIdle
    /\ ExtractIdle
    /\ ScriptsIdle

ChunkText ==
    /\ fin.call = "chunk_text"
    /\ fout = NoResult
    /\ fout' = [ret |-> "chunks",
                chunks |-> chunk_text(fin.text, fin.key, fin.page, CHUNK_WORDS, CHUNK_OVERLAP)]
    /\ UNCHANGED <<fin, retrieveVars, chatVars, serverVars, extractVars, scriptVars>>

ChunkFromLayout ==
    /\ fin.call = "chunk_from_layout"
    /\ fout = NoResult
    /\ fout' = [ret |-> "chunks",
                chunks |-> chunk_from_layout(fin.layout, fin.key, CHUNK_WORDS, CHUNK_OVERLAP)]
    /\ UNCHANGED <<fin, retrieveVars, chatVars, serverVars, extractVars, scriptVars>>

\* build_index: the pass of its loop for one document directory
BuildDoc ==
    /\ fin.call = "build_index"
    /\ fout = NoResult
    /\ fout' = [ret |-> "chunks", chunks |-> DocChunks(fin.doc, Inventory).chunks]
    /\ UNCHANGED <<fin, retrieveVars, chatVars, serverVars, extractVars, scriptVars>>

NextChunk == ChunkText \/ ChunkFromLayout \/ BuildDoc

SpecChunk == InitChunk /\ [][NextChunk]_vars

\* The states of data/texts the pipeline scripts leave behind: one long page;
\* the page with its tail rewritten; two short pages and a layout document;
\* the two short pages extracted as one; a short page and a document with
\* front matter.
Corpus(pages, more) ==
    [docs |-> {FlatDoc(<<"K1">>, pages)} \cup more, inventory |-> Inventory]
Corpora ==
    << Corpus(<< [page |-> <<"1">>, text |-> LongPage] >>, {}),
       Corpus(<< [page |-> <<"1">>, text |-> LongPage2] >>, {}),
       Corpus(<< [page |-> <<"1">>, text |-> PageX], [page |-> <<"2">>, text |-> PageY] >>,
              {LayoutDoc}),
       Corpus(<< [page |-> <<"1">>, text |-> PageX \o PageY] >>, {LayoutDoc}),
       Corpus(<< [page |-> <<"1">>, text |-> Rep(<<"c", "d">>, 5)] >>, {FrontMatterDoc}) >>

(***************************** index builds ********************************)
\* The server process is started, builds its index once (startup calls
\* _ensure_index) and is stopped; the pipeline rewrites data/texts between
\* runs.  disk is the number of the corpus in Corpora; emb_cache is the cache
\* file; index is the tuple the latest build_index call returned.
NoIndex == [chunks |-> <<>>, bm25 |-> <<>>, stats |-> <<>>, embeddings |-> NoMatrix,
            loaded |-> FALSE]

\* What the embedding library does during a build.
Outcomes == {"ok", "embed_error", "save_error"}

InitIndex ==
    /\ disk \in DOMAIN Corpora
    /\ emb_cache = NoFile
    /\ use_emb \in BOOLEAN
    /\ index = NoIndex
    /\ builds = 0
    /\ writes = 0
    /\ G = [built |-> FALSE]
    /\ threads = <<>>
    /\ RetrieveIdle
    /\ ContextIdle
    /\ ChatIdle
    /\ ExtractIdle
    /\ ScriptsIdle

Others == <<retrieveVars, contextVars, chatVars, extractVars, scriptVars>>

Built(r) ==
    /\ index' = [chunks |-> r.chunks, bm25 |-> r.bm25, stats |-> r.stats,
                 embeddings |-> r.embeddings, loaded |-> r.loaded]
    /\ emb_cache' = r.cache

\* python rag_server.py [--bm25-only]: startup() -> _ensure_index() ->
\* build_index(use_embeddings=_USE_EMBEDDINGS)
StartServer ==
    /\ builds < MaxBuilds
    /\ builds' = builds + 1
    /\ \E outcome \in Outcomes :
         Built(build_index(Corpora[disk], emb_cache, use_emb, outcome))
    /\ UNCHANGED <<disk, use_emb, writes, G, threads, Others>>

\* The pipeline scripts rewrite data/texts, while the server is down or up.
PipelineWrites ==
    /\ writes < MaxWrites
    /\ writes' = writes + 1
    /\ \E d \in DOMAIN Corpora \ {disk} : disk' = d
    /\ UNCHANGED <<emb_cache, use_emb, index, builds, G, threads, Others>>

\* A kill during the save leaves a readable file: the new fingerprint with the
\* rows written so far.
KilledInSaveReadable(chunks, fingerprint, cache) ==
    IF cache.state = "good" /\ cache.fingerprint = fingerprint THEN {}
    ELSE { [state |-> "good", fingerprint |-> fingerprint,
            embeddings |-> SubSeq(Embed(chunks), 1, Len(chunks) - 1),
            count |-> Len(chunks)] }

\* What a kill of the process during np.savez_compressed(EMB_CACHE, ...) leaves
\* as the cache file: the archive is written in place, its central directory
\* last, so the file is cut off and unreadable, or complete.  There is no save
\* to interrupt when the cached fingerprint matches.
KilledInSave(chunks, fingerprint, cache) ==
    IF cache.state = "good" /\ cache.fingerprint = fingerprint THEN {}
    ELSE {TruncatedFile, Fresh(fingerprint, Embed(chunks)).cache}

KilledWith(chunks, cache) ==
    /\ chunks # <<>>
    /\ emb_cache' \in KilledInSave(chunks, _chunks_fingerprint(chunks), cache)

\* The server process is killed while _build_embeddings writes the cache: the
\* build returns nothing.
CrashInSave ==
    /\ builds < MaxBuilds
    /\ use_emb
    /\ builds' = builds + 1
    /\ KilledWith(ScanCorpus(Corpora[disk]).chunks, emb_cache)
    /\ index' = NoIndex
    /\ UNCHANGED <<disk, use_emb, writes, G, threads, Others>>

NextIndex == StartServer \/ PipelineWrites \/ CrashInSave

SpecIndex == InitIndex /\ [][NextIndex]_vars

\* search(body), status() and chat(body) up to its return, over the index of
\* the latest build: retrieve is called with the resident chunk list, lexical
\* index and matrix (k and min_score at their defaults), for every answer of
\* BM25Okapi.get_scores and of the embedding model; mode is what status and
\* search report.
\* retrieve writes the scores into the resident chunk dicts instead of copies.
ServedFromInPlace(a, hits) ==
    /\ rin' = a
    /\ rout' = [ret |-> "hits", hits |-> hits, build |-> builds,
                mode |-> IF index.embeddings.present THEN "hybrid" ELSE "bm25",
                context |-> format_context([i \in DOMAIN hits |-> hits[i].chunk],
                                           MAX_CTX_WORDS)]
    /\ index' = [index EXCEPT !.chunks =
                    [i \in DOMAIN @ |->
                        IF \E j \in DOMAIN hits : hits[j].ord = i
                        THEN [key |-> @[i].key, page |-> @[i].page, text |-> <<>>,
                              title |-> @[i].title, authors |-> @[i].authors,
                              year |-> @[i].year]
                        ELSE @[i]]]
    /\ UNCHANGED <<contextVars, chatVars, extractVars, scriptVars,
                   disk, emb_cache, G, use_emb, threads, builds, writes>>

\* The response: the hits (each a copy of its chunk with the scores), the mode,
\* and for chat the context block format_context assembles from the hits.
\* Nothing else is written.
ServedFrom(a, hits) ==
    /\ rin' = a
    /\ rout' = [ret |-> "hits", hits |-> hits, build |-> builds,
                mode |-> IF index.embeddings.present THEN "hybrid" ELSE "bm25",
                context |-> format_context([i \in DOMAIN hits |-> hits[i].chunk],
                                           MAX_CTX_WORDS)]
    /\ UNCHANGED <<contextVars, chatVars, serverVars, extractVars, scriptVars>>

ServeCall(tk, qk, raw, sims) ==
    [call |-> "retrieve", chunks |-> index.chunks, has_bm25 |-> index.chunks # <<>>,
     has_tokens |-> tk, has_emb |-> index.embeddings.present, q_ok |-> qk,
     raw |-> raw, sims |-> sims, k |-> TOP_K, min_score |-> MIN_SCORE]

ServeWith(a) ==
    \E top_idx \in ArgsortDesc(Len(a.chunks), CombinedOf(a)) :
       ServedFrom(a, retrieve(a, top_idx))

ServeSearch ==
    /\ builds > 0
    /\ rin = NoCall
    /\ \E tk \in BOOLEAN, qk \in BOOLEAN :
         \E raw \in (IF tk THEN [DOMAIN index.chunks -> {0, 1}]
                            ELSE {Zeros(Len(index.chunks))}),
            sims \in (IF index.embeddings.present /\ qk
                      THEN [DOMAIN index.chunks -> {0, 1}]
                      ELSE {Zeros(Len(index.chunks))}) :
           ServeWith(ServeCall(tk, qk, raw, sims))

\* One request is followed, in the last run of the server.
NextServe ==
    \/ rin = NoCall /\ NextIndex
    \/ ServeSearch

SpecServe == InitIndex /\ [][NextServe]_vars

(************************** the server process *****************************)
\* One run of the server process, serving concurrent requests.  A global
\* holds the number of the build_index call that produced its value (gen; 0
\* is the assignment at import) and the corpus that call scanned.
AtImport == [gen |-> 0, corpus |-> 0]
Imported ==
    [CHUNKS |-> AtImport, BM25_INDEX |-> AtImport, INDEX_STATS |-> AtImport,
     EMBEDDINGS |-> AtImport, built |-> FALSE]

\* A thread: where it is in its handler (pc), the handler (kind), the tuple
\* build_index returned to it (local), and the globals it has loaded (got).
NoRead     == [gen |-> -1, corpus |-> 0]
NothingGot == [CHUNKS |-> NoRead, BM25_INDEX |-> NoRead, INDEX_STATS |-> NoRead,
               EMBEDDINGS |-> NoRead]
IdleThread == [pc |-> "idle", kind |-> "none", local |-> AtImport, got |-> NothingGot]

Requests == 1..MaxThreads
Kinds    == {"status", "search", "chat"}

InitServer ==
    /\ disk \in DOMAIN Corpora
    /\ emb_cache = NoFile
    /\ use_emb = TRUE
    /\ index = NoIndex
    /\ builds = 0
    /\ writes = 0
    /\ G = Imported
    /\ threads = [t \in 0..MaxThreads |-> IdleThread]
    /\ RetrieveIdle
    /\ ContextIdle
    /\ ChatIdle
    /\ ExtractIdle
    /\ ScriptsIdle

Fixed == <<emb_cache, use_emb, index, Others>>

\* _ensure_index: if _INDEX_BUILT: return
Entered(built) == IF built THEN "returned" ELSE "build"

\* startup(): the ASGI host runs the hook before it admits requests; a host
\* that does not drive the lifespan never runs it.  The hook calls
\* _ensure_index, which tests _INDEX_BUILT.
Startup ==
    /\ \A t \in 0..MaxThreads : threads[t].pc = "idle"
    /\ builds = 0
    /\ threads' = [threads EXCEPT ![0] = [@ EXCEPT !.pc = Entered(G.built),
                                                   !.kind = "startup"]]
    /\ UNCHANGED <<disk, G, builds, writes, Fixed>>

\* A request enters status(), search(body) or chat(body), which calls
\* _ensure_index, which tests _INDEX_BUILT.
Arrive(t) ==
    /\ threads[t].pc = "idle"
    /\ threads[0].pc \in {"idle", "returned"}
    /\ \E kind \in Kinds :
         threads' = [threads EXCEPT ![t] = [@ EXCEPT !.pc = Entered(G.built),
                                                     !.kind = kind]]
    /\ UNCHANGED <<disk, G, builds, writes, Fixed>>

\* _ensure_index: build_index(use_embeddings=_USE_EMBEDDINGS), the right-hand
\* side of the assignment, evaluated over data/texts as it is now
BuildIndex(t) ==
    /\ threads[t].pc = "build"
    /\ threads' = [threads EXCEPT ![t].pc = "store_chunks",
                                  ![t].local = [gen |-> builds + 1, corpus |-> disk]]
    /\ builds' = builds + 1
    /\ UNCHANGED <<disk, G, writes, Fixed>>

\* CHUNKS, BM25_INDEX, INDEX_STATS, EMBEDDINGS = ...: four stores, in this order
StoreChunks(t) ==
    /\ threads[t].pc = "store_chunks"
    /\ G' = [G EXCEPT !.CHUNKS = threads[t].local]
    /\ threads' = [threads EXCEPT ![t].pc = "store_bm25"]
    /\ UNCHANGED <<disk, builds, writes, Fixed>>

StoreBm25(t) ==
    /\ threads[t].pc = "store_bm25"
    /\ G' = [G EXCEPT !.BM25_INDEX = threads[t].local]
    /\ threads' = [threads EXCEPT ![t].pc = "store_stats"]
    /\ UNCHANGED <<disk, builds, writes, Fixed>>

StoreStats(t) ==
    /\ threads[t].pc = "store_stats"
    /\ G' = [G EXCEPT !.INDEX_STATS = threads[t].local]
    /\ threads' = [threads EXCEPT ![t].pc = "store_emb"]
    /\ UNCHANGED <<disk, builds, writes, Fixed>>

StoreEmbeddings(t) ==
    /\ threads[t].pc = "store_emb"
    /\ G' = [G EXCEPT !.EMBEDDINGS = threads[t].local]
    /\ threads' = [threads EXCEPT ![t].pc = "set_built"]
    /\ UNCHANGED <<disk, builds, writes, Fixed>>

\* _INDEX_BUILT = True; _ensure_index returns
SetBuilt(t) ==
    /\ threads[t].pc = "set_built"
    /\ G' = [G EXCEPT !.built = TRUE]
    /\ threads' = [threads EXCEPT ![t].pc = "returned", ![t].local = AtImport]
    /\ UNCHANGED <<disk, builds, writes, Fixed>>

\* search and chat load CHUNKS, BM25_INDEX, EMBEDDINGS as the arguments of
\* retrieve, one after the other; status loads INDEX_STATS, then EMBEDDINGS.
ReadFirst(t) ==
    /\ threads[t].pc = "returned"
    /\ threads[t].kind \in Kinds
    /\ threads' = [threads EXCEPT
                     ![t].pc  = IF threads[t].kind = "status" THEN "read_emb" ELSE "read_bm25",
                     ![t].got = IF threads[t].kind = "status"
                                THEN [@ EXCEPT !.INDEX_STATS = G.INDEX_STATS]
                                ELSE [@ EXCEPT !.CHUNKS = G.CHUNKS]]
    /\ UNCHANGED <<disk, G, builds, writes, Fixed>>

ReadBm25(t) ==
    /\ threads[t].pc = "read_bm25"
    /\ threads' = [threads EXCEPT ![t].pc = "read_emb",
                                  ![t].got.BM25_INDEX = G.BM25_INDEX]
    /\ UNCHANGED <<disk, G, builds, writes, Fixed>>

ReadEmbeddings(t) ==
    /\ threads[t].pc = "read_emb"
    /\ threads' = [threads EXCEPT ![t].pc = "respond",
                                  ![t].got.EMBEDDINGS = G.EMBEDDINGS]
    /\ UNCHANGED <<disk, G, builds, writes, Fixed>>

\* The handler answers from what it loaded.
Respond(t) ==
    /\ threads[t].pc = "respond"
    /\ threads' = [threads EXCEPT ![t] = IdleThread]
    /\ UNCHANGED <<disk, G, builds, writes, Fixed>>

Step(t) ==
    \/ BuildIndex(t)
    \/ StoreChunks(t)
    \/ StoreBm25(t)
    \/ StoreStats(t)
    \/ StoreEmbeddings(t)
    \/ SetBuilt(t)
    \/ ReadFirst(t)
    \/ ReadBm25(t)
    \/ ReadEmbeddings(t)
    \/ Respond(t)

NextServer ==
    \/ Startup
    \/ \E t \in Requests : Arrive(t)
    \/ \E t \in 0..MaxThreads : Step(t)
    \/ PipelineWrites

SpecServer == InitServer /\ [][NextServer]_vars

(***************************** /api/chat ***********************************)
MaxReports == 2     \* the count of reported configuration errors saturates here
MaxTokens == 2      \* text fragments a generator backend yields before it ends or raises

Providers == <<"GEMINI_API_KEY", "OPENAI_API_KEY", "ANTHROPIC_API_KEY">>

\* The resident index the requests are served from (built at startup).
ChatChunks ==
    << AttachMeta([key |-> <<"K1">>, page |-> <<"3">>, text |-> Text(3)],
                  [title |-> <<"Untitled">>, authors |-> <<"Tibbetts">>, year |-> <<"1992">>]),
       AttachMeta([key |-> <<"K2">>, page |-> <<"1">>, text |-> Text(2)], NoItem) >>

Queries == { <<>>, <<" ">>, <<"maps">>, <<" ", "42">> }

\* re.findall(r"[a-zA-Z...']{2,}", query.lower()) finds a token
HasTokens(query) == \E i \in DOMAIN query : query[i] \in {"maps"}

\* stream_llm: source_list, one entry per hit (the snippet is left out)
SourceList(hits) ==
    [i \in DOMAIN hits |-> [key |-> hits[i].chunk.key, page |-> hits[i].chunk.page,
                            label |-> _short_label(hits[i].chunk),
                            score |-> hits[i].score]]

Event(type, text) == [type |-> type, text |-> text]

\* stream_llm: the first provider whose key is set, "none" without any
SelectProvider(keys) ==
    IF Providers[1] \in keys THEN Providers[1]
    ELSE IF Providers[2] \in keys THEN Providers[2]
    ELSE IF Providers[3] \in keys THEN Providers[3]
    ELSE "none"

\* What retrieve(query, CHUNKS, BM25_INDEX, EMBEDDINGS) can return over the
\* resident index, for every answer of the collaborators.
ChatHitLists(has_tokens) ==
    UNION { { retrieve(
                [call |-> "retrieve", chunks |-> ChatChunks, has_bm25 |-> TRUE,
                 has_tokens |-> has_tokens, has_emb |-> TRUE, q_ok |-> qk,
                 raw |-> raw, sims |-> sims, k |-> TOP_K, min_score |-> MIN_SCORE],
                top_idx) :
              top_idx \in ArgsortDesc(Len(ChatChunks), CombinedOf(
                [chunks |-> ChatChunks, has_bm25 |-> TRUE,
                 has_tokens |-> has_tokens, has_emb |-> TRUE, q_ok |-> qk,
                 raw |-> raw, sims |-> sims])) } :
            raw \in [1..Len(ChatChunks) -> {0, 1}],
            sims \in [1..Len(ChatChunks) -> {0, 1}], qk \in BOOLEAN }
HitListsTokens   == ChatHitLists(TRUE)
HitListsNoTokens == ChatHitLists(FALSE)

InitChat ==
    /\ env_keys \in SUBSET {Providers[i] : i \in 1..3}
    /\ chat = NoChat
    /\ reported = 0
    /\ RetrieveIdle
    /\ ContextIdle
    /\ ServerIdle
    /\ ExtractIdle
    /\ ScriptsIdle

\* chat(body): the index is resident, so _ensure_index returns at once; an
\* empty query is answered with {"error": "empty query"}; otherwise retrieve
\* and format_context run and the StreamingResponse takes the generator.
Chat ==
    /\ chat.pc \in {"idle", "rejected", "closed"}
    /\ \E body \in Queries :
         LET query == Strip(body)
         IN  IF query = <<>>
             THEN chat' = [NoChat EXCEPT !.pc = "rejected"]
             ELSE \E hits \in (IF HasTokens(query) THEN HitListsTokens
                                                   ELSE HitListsNoTokens) :
                    chat' = [NoChat EXCEPT
                               !.pc = "start", !.query = query, !.hits = hits,
                               !.context = format_context(
                                   [i \in DOMAIN hits |-> hits[i].chunk], MAX_CTX_WORDS)]
    /\ UNCHANGED <<env_keys, reported, retrieveVars, contextVars, serverVars, extractVars, scriptVars>>

\* The generator's first resumption: yield the sources event.
EmitSources ==
    /\ chat.pc = "start"
    /\ chat' = [chat EXCEPT !.pc = "sources",
                  !.events = Append(@, Event("sources", SourceList(chat.hits)))]
    /\ UNCHANGED <<env_keys, reported, retrieveVars, contextVars, serverVars, extractVars, scriptVars>>

\* No key is set: yield the configuration error as a token.
NoApiKey ==
    /\ chat.pc = "sources"
    /\ SelectProvider(env_keys) = "none"
    /\ chat' = [chat EXCEPT !.pc = "nokey",
                  !.events = Append(@, Event("token", "Error: no API key found"))]
    /\ reported' = Min(reported + 1, MaxReports)
    /\ UNCHANGED <<env_keys, retrieveVars, contextVars, serverVars, extractVars, scriptVars>>

\* The streamer is called (after the sources event, with a key set) or is
\* being iterated.
StreamerRunsBeforeSources ==
    \/ chat.pc \in {"start", "sources"} /\ SelectProvider(env_keys) # "none"
    \/ chat.pc = "streaming"
StreamerRuns ==
    \/ chat.pc = "sources" /\ SelectProvider(env_keys) # "none"
    \/ chat.pc = "streaming"

\* The n-th text fragment the backend produces.
Fragment(n) ==
    IF n = 1 THEN "fragment 1" ELSE IF n = 2 THEN "fragment 2"
    ELSE IF n = 3 THEN "fragment 3" ELSE "fragment 4"

\* A generated fragment is forwarded although the backend has already raised.
StreamTokenAfterError ==
    /\ StreamerRuns \/ chat.pc = "errored"
    /\ chat.ntok < MaxTokens
    /\ chat' = [chat EXCEPT !.pc = "streaming", !.invoked = TRUE,
                  !.provider = SelectProvider(env_keys), !.ntok = @ + 1,
                  !.events = Append(@, Event("token", Fragment(chat.ntok + 1)))]
    /\ UNCHANGED <<env_keys, reported, retrieveVars, contextVars, serverVars, extractVars, scriptVars>>

\* for text in streamer(user_msg): yield a token event
StreamToken ==
    /\ StreamerRuns
    /\ chat.ntok < MaxTokens
    /\ chat' = [chat EXCEPT !.pc = "streaming", !.invoked = TRUE,
                  !.provider = SelectProvider(env_keys), !.ntok = @ + 1,
                  !.events = Append(@, Event("token", Fragment(chat.ntok + 1)))]
    /\ UNCHANGED <<env_keys, reported, retrieveVars, contextVars, serverVars, extractVars, scriptVars>>

\* except Exception as e: yield the error as a token, with no done event
\* (the handler returning instead of falling through)
StreamRaiseAndReturn ==
    /\ StreamerRuns
    /\ chat' = [chat EXCEPT !.pc = "closed", !.invoked = TRUE,
                  !.provider = SelectProvider(env_keys),
                  !.events = Append(@, Event("token", "Error (provider)"))]
    /\ UNCHANGED <<env_keys, reported, retrieveVars, contextVars, serverVars, extractVars, scriptVars>>

\* except Exception as e: yield the error as a token
StreamRaise ==
    /\ StreamerRuns
    /\ chat' = [chat EXCEPT !.pc = "errored", !.invoked = TRUE,
                  !.provider = SelectProvider(env_keys),
                  !.events = Append(@, Event("token", "Error (provider)"))]
    /\ UNCHANGED <<env_keys, reported, retrieveVars, contextVars, serverVars, extractVars, scriptVars>>

\* The streamer is exhausted: yield done.
StreamEnd ==
    /\ StreamerRuns
    /\ chat' = [chat EXCEPT !.pc = "done", !.invoked = TRUE,
                  !.provider = SelectProvider(env_keys),
                  !.events = Append(@, Event("done", ""))]
    /\ UNCHANGED <<env_keys, reported, retrieveVars, contextVars, serverVars, extractVars, scriptVars>>

\* After the error token (generator failure or missing key): yield done.
EmitDone ==
    /\ chat.pc \in {"errored", "nokey"}
    /\ chat' = [chat EXCEPT !.pc = "done", !.events = Append(@, Event("done", ""))]
    /\ UNCHANGED <<env_keys, reported, retrieveVars, contextVars, serverVars, extractVars, scriptVars>>

\* The generator returns; the response is complete.
Close ==
    /\ chat.pc = "done"
    /\ chat' = [chat EXCEPT !.pc = "closed"]
    /\ UNCHANGED <<env_keys, reported, retrieveVars, contextVars, serverVars, extractVars, scriptVars>>

\* One resumption of the stream_llm generator by the StreamingResponse.
Resume ==
    \/ EmitSources
    \/ NoApiKey
    \/ StreamToken
    \/ StreamRaise
    \/ StreamEnd
    \/ EmitDone
    \/ Close

NextChat == Chat \/ Resume

SpecChat == InitChat /\ [][NextChat]_vars

\* The StreamingResponse iterates the generator until it returns, and a
\* backend yields a bounded number of fragments (max_tokens) before it ends
\* or raises.
SpecChatFair == SpecChat /\ WF_vars(Resume)

(*********************** 05b_extract_robust.py *****************************)
\* The extraction script: main() filters the candidates, a thread pool runs
\* _process on each, the main thread runs _on_done on each result as it
\* completes, and the inventory is written at the end.  All threads share the
\* dict status; _update_status changes it and then calls _save_status, which
\* serialises it under _status_lock and replaces pipeline_status.json.
MaxRuns    == 2      \* runs of the script
MaxWorkers == 2      \* --workers (default 2)

Docs == {"D1", "D2"}     \* inventory entries with a stored PDF

Terminal == {"ok", "error", "skip"}

NoDocs  == [d \in Docs |-> "absent"]
NoFiles == [status |-> NoDocs, pt |-> {}, le |-> {}, meta |-> {}, extracted |-> {}]
NoTask  == [pc |-> "none", res |-> "none", resized |-> FALSE]
MainIdle == [pc |-> "idle", key |-> "none", res |-> "none", resized |-> FALSE, dirty |-> {}]

Rest == <<retrieveVars, contextVars, chatVars, serverVars, scriptVars>>

InitExtract ==
    /\ job = [n |-> 0, state |-> "idle", prev |-> "idle"]
    /\ tasks = [d \in Docs |-> NoTask]
    /\ mainp = MainIdle
    /\ status = NoDocs
    /\ lock = "free"
    /\ files = NoFiles
    /\ RetrieveIdle
    /\ ContextIdle
    /\ ChatIdle
    /\ ServerIdle
    /\ ScriptsIdle

\* main: without --force, the documents that have no page_texts.json yet
Candidates(f) == {d \in Docs : d \notin f.pt}

\* main(): no candidates: "Nothing to do"; else status = _load_status() and
\* one future per candidate is submitted to the pool.
Submitted(n, prev, cands) ==
    IF cands = {}
    THEN /\ job' = [n |-> n, state |-> "finished", prev |-> prev]
         /\ tasks' = [d \in Docs |-> NoTask]
         /\ mainp' = MainIdle
         /\ status' = NoDocs
    ELSE /\ job' = [n |-> n, state |-> "running", prev |-> prev]
         /\ tasks' = [d \in Docs |-> IF d \in cands THEN [NoTask EXCEPT !.pc = "queued"]
                                                  ELSE NoTask]
         /\ mainp' = [MainIdle EXCEPT !.pc = "wait"]
         /\ status' = files.status

StartRun ==
    /\ job.state # "running"
    /\ job.n < MaxRuns
    /\ Submitted(job.n + 1, job.state, Candidates(files))
    /\ UNCHANGED <<lock, files, Rest>>

Running(d) == tasks[d].pc \in {"marked", "dump", "extract", "pt_written", "le_written"}

\* A thread that is serialising status sees the dict change size when a key
\* is inserted.
Resized(t, grew) == IF grew /\ t.pc = "dump" THEN [t EXCEPT !.resized = TRUE] ELSE t

\* _process, in a pool thread: _update_status(status, key, "in_progress")
\* assigns status["docs"][key], outside the lock.
ProcessMarks(d) ==
    /\ job.state = "running"
    /\ tasks[d].pc = "queued"
    /\ Cardinality({e \in Docs : Running(e)}) < MaxWorkers
    /\ status' = [status EXCEPT ![d] = "in_progress"]
    /\ tasks' = [e \in Docs |-> IF e = d THEN [tasks[d] EXCEPT !.pc = "marked"]
                                ELSE Resized(tasks[e], status[d] = "absent")]
    /\ mainp' = Resized(mainp, status[d] = "absent")
    /\ UNCHANGED <<job, lock, files, Rest>>

\* _save_status: with _status_lock: json.dumps(status, indent=2, ...) starts
WorkerLocks(d) ==
    /\ tasks[d].pc = "marked"
    /\ lock = "free"
    /\ lock' = d
    /\ tasks' = [tasks EXCEPT ![d].pc = "dump", ![d].resized = FALSE]
    /\ UNCHANGED <<job, mainp, status, files, Rest>>

\* json.dumps finishes (a key inserted meanwhile may have come after the last
\* item was fetched); tmp.write_text and tmp.replace(STATUS_PATH) follow.
WorkerSaves(d) ==
    /\ tasks[d].pc = "dump"
    /\ lock' = "free"
    /\ files' = [files EXCEPT !.status = status]
    /\ tasks' = [tasks EXCEPT ![d].pc = "extract"]
    /\ UNCHANGED <<job, mainp, status, Rest>>

\* json.dumps iterates a dict that changed size: RuntimeError.  The lock is
\* released, the exception ends _process and is kept in the future.
WorkerSaveRaises(d) ==
    /\ tasks[d].pc = "dump"
    /\ tasks[d].resized
    /\ lock' = "free"
    /\ tasks' = [tasks EXCEPT ![d].pc = "returned", ![d].res = "raised"]
    /\ UNCHANGED <<job, mainp, status, files, Rest>>

\* extract_document: the resume check, then the PDF is opened and read (it may
\* be missing or unreadable), then page_texts.json is written.
ExtractDocument(d) ==
    /\ tasks[d].pc = "extract"
    /\ IF d \in files.pt
       THEN /\ tasks' = [tasks EXCEPT ![d].pc = "returned", ![d].res = "skip"]
            /\ UNCHANGED files
       ELSE \/ /\ tasks' = [tasks EXCEPT ![d].pc = "returned", ![d].res = "error"]
               /\ UNCHANGED files
            \/ /\ tasks' = [tasks EXCEPT ![d].pc = "pt_written"]
               /\ files' = [files EXCEPT !.pt = @ \cup {d}]
    /\ UNCHANGED <<job, mainp, status, lock, Rest>>

\* extract_document: layout_elements.json is written
WriteLayout(d) ==
    /\ tasks[d].pc = "pt_written"
    /\ files' = [files EXCEPT !.le = @ \cup {d}]
    /\ tasks' = [tasks EXCEPT ![d].pc = "le_written"]
    /\ UNCHANGED <<job, mainp, status, lock, Rest>>

\* extract_document: meta.json is written and the result returned
WriteMeta(d) ==
    /\ tasks[d].pc = "le_written"
    /\ files' = [files EXCEPT !.meta = @ \cup {d}]
    /\ tasks' = [tasks EXCEPT ![d].pc = "returned", ![d].res = "ok"]
    /\ UNCHANGED <<job, mainp, status, lock, Rest>>

\* The state main records for a future: its result's status, "error" when
\* future.result() raised.
Recorded(res) == IF res = "raised" THEN "error" ELSE res

\* as_completed yields a finished future; _on_done calls _update_status, which
\* assigns status["docs"][key] (the key is there already).
OnDone(d) ==
    /\ mainp.pc = "wait"
    /\ tasks[d].pc = "returned"
    /\ status' = [status EXCEPT ![d] = Recorded(tasks[d].res)]
    /\ tasks' = [tasks EXCEPT ![d].pc = "collected"]
    /\ mainp' = [mainp EXCEPT !.pc = "marked", !.key = d, !.res = Recorded(tasks[d].res)]
    /\ UNCHANGED <<job, lock, files, Rest>>

MainLocks ==
    /\ mainp.pc = "marked"
    /\ lock = "free"
    /\ lock' = "main"
    /\ mainp' = [mainp EXCEPT !.pc = "dump", !.resized = FALSE]
    /\ UNCHANGED <<job, tasks, status, files, Rest>>

\* The status file is replaced; for an "ok" result _on_done then sets
\* entry["extracted"] = True in the inventory held in memory.
MainSaves ==
    /\ mainp.pc = "dump"
    /\ lock' = "free"
    /\ files' = [files EXCEPT !.status = status]
    /\ mainp' = [mainp EXCEPT !.pc = "wait",
                   !.dirty = IF mainp.res = "ok" THEN @ \cup {mainp.key} ELSE @]
    /\ UNCHANGED <<job, tasks, status, Rest>>

\* RuntimeError in the main thread: it leaves _on_done and the as_completed
\* loop uncaught.
MainSaveRaises ==
    /\ mainp.pc = "dump"
    /\ mainp.resized
    /\ lock' = "free"
    /\ mainp' = [mainp EXCEPT !.pc = "crashed"]
    /\ UNCHANGED <<job, tasks, status, files, Rest>>

Settled(pcs) == \A d \in Docs : tasks[d].pc \in pcs

\* All futures are collected: inventory.json is written with the flags.
WriteInventory ==
    /\ job.state = "running"
    /\ mainp.pc = "wait"
    /\ Settled({"none", "collected"})
    /\ files' = [files EXCEPT !.extracted = @ \cup mainp.dirty]
    /\ job' = [job EXCEPT !.state = "finished"]
    /\ UNCHANGED <<tasks, mainp, status, lock, Rest>>

\* The pool's shutdown waits for every submitted future; then the exception
\* ends the script.
PoolDrained ==
    /\ job.state = "running"
    /\ mainp.pc = "crashed"
    /\ Settled({"none", "returned", "collected"})
    /\ job' = [job EXCEPT !.state = "failed"]
    /\ UNCHANGED <<tasks, mainp, status, lock, files, Rest>>

\* The run is interrupted (the process is killed): what is in memory is lost,
\* the files stay as they are.
Interrupt ==
    /\ job.state = "running"
    /\ job' = [job EXCEPT !.state = "interrupted"]
    /\ tasks' = [d \in Docs |-> NoTask]
    /\ mainp' = MainIdle
    /\ status' = NoDocs
    /\ lock' = "free"
    /\ UNCHANGED <<files, Rest>>

Worker(d) ==
    \/ ProcessMarks(d)
    \/ WorkerLocks(d)
    \/ WorkerSaves(d)
    \/ WorkerSaveRaises(d)
    \/ ExtractDocument(d)
    \/ WriteLayout(d)
    \/ WriteMeta(d)

NextExtract ==
    \/ StartRun
    \/ \E d \in Docs : Worker(d)
    \/ \E d \in Docs : OnDone(d)
    \/ MainLocks
    \/ MainSaves
    \/ MainSaveRaises
    \/ WriteInventory
    \/ PoolDrained
    \/ Interrupt

SpecExtract == InitExtract /\ [][NextExtract]_vars

(*************************** 00_stage_pdfs.py ******************************)
\* The staging script: main() reads inventory.json, then for each item in
\* turn fetch_pdf downloads the attachment into data/pdfs/{key}.pdf and, for
\* a staged item, main updates the item in memory, saves the inventory
\* (_save_inventory: write a .tmp.json beside it, then replace) and marks the
\* item in import_status.json.  A download is identified by the number of the
\* run that made it.
MaxStageRuns == 3      \* runs of the script

StageItems == <<"D1", "D2">>     \* the items of inventory.json, in file order

NoPdf       == [state |-> "absent", dl |-> 0]
NotStaged   == [i \in DOMAIN StageItems |-> 0]
NoTmp       == [state |-> "absent"]
StageIdle   == [run |-> 0, state |-> "idle", force |-> FALSE, dry |-> FALSE,
                pc |-> "none", cur |-> 0, mem |-> NotStaged,
                skipped |-> [i \in DOMAIN StageItems |-> "no"]]
StageDisk0  == [inv |-> [state |-> "complete", items |-> NotStaged], tmp |-> NoTmp,
                pdf |-> [i \in DOMAIN StageItems |-> NoPdf]]

StageRest == <<retrieveVars, contextVars, chatVars, serverVars, extractVars, tr>>

InitStage ==
    /\ stage = [p |-> StageIdle, disk |-> StageDisk0]
    /\ tr = <<>>
    /\ RetrieveIdle
    /\ ContextIdle
    /\ ChatIdle
    /\ ServerIdle
    /\ ExtractIdle

\* main(): parse the arguments, inventory = json.loads(inv_path.read_text()),
\* candidates = list(inventory); the loop starts at the first item.
StageMain ==
    /\ stage.p.state # "running"
    /\ stage.p.run < MaxStageRuns
    /\ stage.disk.inv.state = "complete"
    /\ \E force \in BOOLEAN, dry \in BOOLEAN :
         stage' = [stage EXCEPT !.p =
                     [run |-> stage.p.run + 1, state |-> "running", force |-> force,
                      dry |-> dry, pc |-> "fetch", cur |-> 1,
                      mem |-> stage.disk.inv.items,
                      skipped |-> [i \in DOMAIN StageItems |-> "no"]]]
    /\ UNCHANGED StageRest

\* The loop goes on to the next item, or main returns after the last.
NextItem(p) ==
    IF p.cur < Len(StageItems) THEN [p EXCEPT !.cur = @ + 1, !.pc = "fetch"]
    ELSE [p EXCEPT !.pc = "none", !.state = "finished"]

\* fetch_pdf: if not force and item.get("pdf_staged_path") and dest.exists()
AlreadyStaged(p, dsk) ==
    ~p.force /\ p.mem[p.cur] # 0 /\ dsk.pdf[p.cur].state # "absent"

\* fetch_pdf returns already_staged: main counts the item as skipped.
FetchSkips ==
    /\ stage.p.pc = "fetch"
    /\ AlreadyStaged(stage.p, stage.disk)
    /\ stage' = [stage EXCEPT !.p =
                    NextItem([stage.p EXCEPT
                                !.skipped[stage.p.cur] = stage.disk.pdf[stage.p.cur].state])]
    /\ UNCHANGED StageRest

\* fetch_pdf returns no_attachment, linked_file or download_failed, or
\* dry_run under --dry-run: nothing is written.
FetchNothing ==
    /\ stage.p.pc = "fetch"
    /\ ~AlreadyStaged(stage.p, stage.disk)
    /\ stage' = [stage EXCEPT !.p = NextItem(stage.p)]
    /\ UNCHANGED StageRest

\* fetch_pdf: the download succeeded; dest.write_bytes(file_bytes) opens dest
\* (truncating what was there) and starts writing.
FetchDownloads ==
    /\ stage.p.pc = "fetch"
    /\ ~AlreadyStaged(stage.p, stage.disk)
    /\ ~stage.p.dry
    /\ stage' = [stage EXCEPT !.p.pc = "writing",
                              !.disk.pdf[stage.p.cur] =
                                  [state |-> "partial", dl |-> stage.p.run]]
    /\ UNCHANGED StageRest

\* write_bytes returns; fetch_pdf returns status staged with the provenance.
WriteBytesEnds ==
    /\ stage.p.pc = "writing"
    /\ stage' = [stage EXCEPT !.p.pc = "staged",
                              !.disk.pdf[stage.p.cur].state = "complete"]
    /\ UNCHANGED StageRest

\* main: the provenance fields are set on inventory[idx]; _save_inventory
\* starts tmp.write_text(json.dumps(inventory)).
SaveInventoryStarts ==
    /\ stage.p.pc = "staged"
    /\ stage' = [stage EXCEPT !.p.pc = "tmp_writing",
                              !.p.mem[stage.p.cur] = stage.p.run,
                              !.disk.tmp = [state |-> "partial"]]
    /\ UNCHANGED StageRest

\* tmp.write_text returns
TmpWritten ==
    /\ stage.p.pc = "tmp_writing"
    /\ stage' = [stage EXCEPT !.p.pc = "tmp_written",
                              !.disk.tmp = [state |-> "complete", items |-> stage.p.mem]]
    /\ UNCHANGED StageRest

\* tmp.replace(inv_path): the rename puts the new file in place in one step
TmpReplace ==
    /\ stage.p.pc = "tmp_written"
    /\ stage' = [stage EXCEPT !.p.pc = "mark",
                              !.disk.inv = stage.disk.tmp,
                              !.disk.tmp = NoTmp]
    /\ UNCHANGED StageRest

\* _mark_staged_in_status(key, inv_path) rewrites import_status.json
MarkStagedInStatus ==
    /\ stage.p.pc = "mark"
    /\ stage' = [stage EXCEPT !.p = NextItem(stage.p)]
    /\ UNCHANGED StageRest

\* The run is interrupted (the process is killed): what is in memory is lost,
\* the files stay as they are.
StageInterrupt ==
    /\ stage.p.state = "running"
    /\ stage' = [stage EXCEPT !.p = [StageIdle EXCEPT !.run = stage.p.run,
                                                     !.state = "interrupted",
                                                     !.skipped = stage.p.skipped]]
    /\ UNCHANGED StageRest

NextStage ==
    \/ StageMain
    \/ FetchSkips
    \/ FetchNothing
    \/ FetchDownloads
    \/ WriteBytesEnds
    \/ SaveInventoryStarts
    \/ TmpWritten
    \/ TmpReplace
    \/ MarkStagedInStatus
    \/ StageInterrupt

SpecStage == InitStage /\ [][NextStage]_vars

(**************************** 08_translate.py ******************************)
\* translate_doc for one document of two non-empty pages, over runs of the
\* script.  A page's entry in translation.json's page_texts is "none" (no
\* entry), "orig" (the source-language text) or "en" (a translation).  The
\* document is written in Arabic or Hebrew script (which _looks_untranslated
\* detects in a kept original) or in another script (which it does not).
MaxTrRuns == 3      \* runs of translate_doc on the document

TrPages  == <<"1", "2">>       \* the digit keys of page_texts.json, sorted
Scripts  == {"arabic", "latin"}
NoEntries == [i \in DOMAIN TrPages |-> "none"]
NoTranslation == [exists |-> FALSE, partial |-> FALSE, page_texts |-> NoEntries]
TrIdle   == [run |-> 0, state |-> "idle", force |-> FALSE, result |-> "none",
             todo |-> <<>>, pos |-> 0, batch_size |-> 0, t_page_texts |-> NoEntries]

TrRest == <<retrieveVars, contextVars, chatVars, serverVars, extractVars, stage>>

InitTranslate ==
    /\ \E script \in Scripts :
         tr = [p |-> TrIdle, file |-> NoTranslation, script |-> script, pending |-> {}]
    /\ stage = <<>>
    /\ RetrieveIdle
    /\ ContextIdle
    /\ ChatIdle
    /\ ServerIdle
    /\ ExtractIdle

\* _looks_untranslated(text): more than a quarter of the characters of a text
\* of 30 or more are Arabic or Hebrew letters
_looks_untranslated(entry, script) == entry = "orig" /\ script = "arabic"

\* still_foreign: the entries of the existing file that look untranslated
StillForeign(file, script) ==
    {i \in DOMAIN TrPages : _looks_untranslated(file.page_texts[i], script)}

\* if out_path.exists() and not force: skip when the file is not partial and
\* no entry still looks untranslated
AlreadyTranslated(file, script, force) ==
    file.exists /\ ~force /\ ~file.partial /\ StillForeign(file, script) = {}

\* todo: the pages with no entry, or an entry that looks untranslated, or all
\* pages under --force
Todo(t_page_texts, script, force) ==
    SelectSeq([i \in DOMAIN TrPages |-> i],
              LAMBDA i : \/ t_page_texts[i] = "none"
                         \/ _looks_untranslated(t_page_texts[i], script)
                         \/ force)

\* translate_doc is called and returns at once: the file counts as complete
\* ("already translated"), or detect_language answers en or unknown.
TranslateReturns ==
    /\ tr.p.state # "running"
    /\ tr.p.run < MaxTrRuns
    /\ \E force \in BOOLEAN, detected \in BOOLEAN :
         /\ AlreadyTranslated(tr.file, tr.script, force) \/ ~detected
         /\ tr' = [tr EXCEPT !.p =
                     [TrIdle EXCEPT !.run = tr.p.run + 1, !.state = "returned",
                                    !.force = force,
                                    !.result = IF AlreadyTranslated(tr.file, tr.script, force)
                                               THEN "already" ELSE "english"]]
    /\ UNCHANGED TrRest

\* translate_doc is called and goes on to translate: the existing entries are
\* loaded and todo is computed.
TranslateStarts ==
    /\ tr.p.state # "running"
    /\ tr.p.run < MaxTrRuns
    /\ \E force \in BOOLEAN, batch_size \in 1..Len(TrPages) :
         /\ ~AlreadyTranslated(tr.file, tr.script, force)
         /\ tr' = [tr EXCEPT !.p =
                     [run |-> tr.p.run + 1, state |-> "running", force |-> force,
                      result |-> "none",
                      todo |-> Todo(tr.file.page_texts, tr.script, force),
                      pos |-> 1, batch_size |-> batch_size,
                      t_page_texts |-> tr.file.page_texts]]
    /\ UNCHANGED TrRest

BatchPages(p) == {p.todo[j] : j \in p.pos..Min(p.pos + p.batch_size - 1, Len(p.todo))}

\* The merge of one batch: answers[i] is what the response holds for page i,
\* "en" (a translation), "orig" (text still in the source language) or
\* "none" (the page is not in the response); failed: translate_batch raised
\* and the originals were kept.
Merged(t_page_texts, batch, failed, answers) ==
    [i \in DOMAIN TrPages |->
        IF i \notin batch THEN t_page_texts[i]
        ELSE IF failed THEN "orig"
        ELSE IF answers[i] # "none" THEN answers[i]
        ELSE t_page_texts[i]]

\* One pass of the loop over the batches: translate_batch, the merge, and the
\* incremental save with partial = True.  pending keeps the pages that were
\* sent and came back missing (lost), until they are sent again.
BatchSaved(p, batch, t2, lost) ==
    tr' = [tr EXCEPT !.p.pos = p.pos + p.batch_size,
                     !.p.t_page_texts = t2,
                     !.pending = (@ \ batch) \cup lost,
                     !.file = [exists |-> TRUE, partial |-> TRUE, page_texts |-> t2]]

TranslateBatch ==
    /\ tr.p.state = "running"
    /\ tr.p.pos <= Len(tr.p.todo)
    /\ \E failed \in BOOLEAN, answers \in [DOMAIN TrPages -> {"en", "orig", "none"}] :
         BatchSaved(tr.p, BatchPages(tr.p),
                    Merged(tr.p.t_page_texts, BatchPages(tr.p), failed, answers),
                    {i \in BatchPages(tr.p) : failed \/ answers[i] = "none"})
    /\ UNCHANGED TrRest

\* After the last batch: the final save, without the partial flag.
FinalSave ==
    /\ tr.p.state = "running"
    /\ tr.p.pos > Len(tr.p.todo)
    /\ tr' = [tr EXCEPT !.p.state = "returned", !.p.result = "done",
                        !.file = [exists |-> TRUE, partial |-> FALSE,
                                  page_texts |-> tr.p.t_page_texts]]
    /\ UNCHANGED TrRest

\* The run is killed between two batches: the file stays as last saved.
TranslateInterrupt ==
    /\ tr.p.state = "running"
    /\ tr' = [tr EXCEPT !.p = [TrIdle EXCEPT !.run = tr.p.run, !.state = "interrupted"]]
    /\ UNCHANGED TrRest

NextTranslate ==
    \/ TranslateReturns
    \/ TranslateStarts
    \/ TranslateBatch
    \/ FinalSave
    \/ TranslateInterrupt

SpecTranslate == InitTranslate /\ [][NextTranslate]_vars

(************************* the query endpoints ******************************)
\* search(body): the index is resident, so _ensure_index returns at once; the
\* query is taken from the body as it is and handed to retrieve (k is left at
\* its default); the hits are returned as JSON.
Search ==
    /\ \E body \in Queries :
         \E hits \in (IF HasTokens(body) THEN HitListsTokens ELSE HitListsNoTokens) :
            /\ rin' = [call |-> "search", query |-> body]
            /\ rout' = [ret |-> "hits", hits |-> hits]
    /\ UNCHANGED <<chatVars, contextVars, serverVars, extractVars, scriptVars>>

\* The two query-taking handlers, each up to its return (the body of a chat
\* response is streamed afterwards).
NextEndpoints == Chat \/ Search

SpecEndpoints == InitChat /\ [][NextEndpoints]_vars

(************************* claims about retrieve ***************************)
Returned == rout # NoResult
Hits     == rout.hits

\* C5: the hit list returned by retrieve is ordered by non-increasing combined
\* score: hits[i].score >= hits[i+1].score for every valid i.
C5_MonotoneRanking ==
    Returned => \A i \in 1..(Len(Hits) - 1) : RLe(Hits[i + 1].score, Hits[i].score)

\* A call that returned two hits with different scores.
C5_Witness ==
    /\ Returned
    /\ Len(Hits) >= 2
    /\ RLt(Hits[2].score, Hits[1].score)

\* C6: no returned hit has a combined score below min_score, in hybrid and in
\* lexical-only mode; no chunk ranked after a below-threshold chunk is returned.
C6_ThresholdRespected ==
    Returned =>
        /\ \A i \in 1..Len(Hits) : ~RLt(Hits[i].score, rin.min_score)
        /\ \A i \in 1..Len(Hits) : \A j \in 1..Len(rin.chunks) :
               RLt(CombinedOf(rin)[j], rin.min_score)
                   => RLe(CombinedOf(rin)[j], Hits[i].score)

\* A hybrid call and a lexical-only call are both covered: here a hybrid call
\* returned a hit while another chunk fell below the threshold.
C6_Witness ==
    /\ Returned
    /\ rin.has_emb
    /\ Len(Hits) >= 1
    /\ \E j \in 1..Len(rin.chunks) : RLt(CombinedOf(rin)[j], rin.min_score)

\* C7: no two hits of one result share the same (key, page).
C7_Deduplicated ==
    Returned => \A i, j \in 1..Len(Hits) :
        i # j => <<Hits[i].chunk.key, Hits[i].chunk.page>>
                     # <<Hits[j].chunk.key, Hits[j].chunk.page>>

\* Two chunks of the same key and page both passed the threshold, k allowed
\* two hits, and one hit came back.
C7_Witness ==
    /\ Returned
    /\ rin.k >= 2
    /\ Len(Hits) = 1
    /\ \E i, j \in 1..Len(rin.chunks) :
          /\ i # j
          /\ rin.chunks[i] = rin.chunks[j]
          /\ ~RLt(CombinedOf(rin)[i], rin.min_score)
          /\ ~RLt(CombinedOf(rin)[j], rin.min_score)

\* C8: for every returned hit the lexical, the semantic and the combined
\* score each lie in [0, 1].
C8_ScoresBounded ==
    Returned => \A i \in 1..Len(Hits) :
        /\ InUnit(Hits[i].bm25)
        /\ InUnit(Hits[i].semantic)
        /\ InUnit(Hits[i].score)

\* C14: with a semantic matrix resident and a query that could not be
\* embedded, retrieve scores lexical-only: every hit's combined score equals
\* its lexical score, and no chunk whose lexical score reaches min_score is
\* ranked below the threshold.
C14_EmbedFailureLexicalOnly ==
    (Returned /\ rin.has_emb /\ ~rin.q_ok) =>
        /\ \A i \in 1..Len(Hits) :
              RLe(Hits[i].score, Hits[i].bm25) /\ RLe(Hits[i].bm25, Hits[i].score)
        /\ \A j \in 1..Len(rin.chunks) :
              RLt(CombinedOf(rin)[j], rin.min_score)
                 => RLt(Bm25Scores(Len(rin.chunks), rin.has_bm25, rin.has_tokens,
                                   rin.raw)[j], rin.min_score)

REq(a, b) == RLe(a, b) /\ RLe(b, a)
Uid(c)    == <<c.key, c.page>>

\* C22: chunks of equal combined score are returned in ascending chunk
\* ordinal, and of several equal-scored chunks with one (key, page) the one
\* with the lowest ordinal is the one that survives deduplication.
C22_TieByOrdinal ==
    Returned =>
        /\ \A i \in 1..(Len(Hits) - 1) :
              REq(Hits[i].score, Hits[i + 1].score) => Hits[i].ord < Hits[i + 1].ord
        /\ \A i \in 1..Len(Hits) : \A j \in 1..Len(rin.chunks) :
              (Uid(rin.chunks[j]) = Uid(Hits[i].chunk)
                  /\ REq(CombinedOf(rin)[j], Hits[i].score)) => Hits[i].ord <= j

\* The reference list for one ranking of the ordinals: the chunks at or above
\* min_score in ranked order, each (key, page) kept at its first occurrence.
AboveThreshold(a, top_idx, comb) ==
    SelectSeq(top_idx, LAMBDA i : ~RLt(comb[i], a.min_score))
FirstOfKey(a, kept) ==
    Ordered({p \in DOMAIN kept :
                \A q \in 1..(p - 1) : Uid(a.chunks[kept[q]]) # Uid(a.chunks[kept[p]])},
            1, Len(kept))
Deduplicated(a, kept, firsts) == [n \in DOMAIN firsts |-> kept[firsts[n]]]
ReferenceOf(a, kept) == Deduplicated(a, kept, FirstOfKey(a, kept))
Reference(a, top_idx) == ReferenceOf(a, AboveThreshold(a, top_idx, CombinedOf(a)))

HitOrdinals == [i \in DOMAIN Hits |-> Hits[i].ord]

\* C23: for every k >= 0, retrieve returns exactly the first min(k, m) entries
\* of the reference list (m its length) for some descending ranking of the
\* chunks: never more than k hits, and no qualifying key left out while
\* fewer than k hits are returned.
C23_FirstKOfReference ==
    Returned =>
        \E top_idx \in ArgsortDesc(Len(rin.chunks), CombinedOf(rin)) :
            HitOrdinals = Take(Reference(rin, top_idx), rin.k)

\* The same for k >= 1.
C23_FirstKOfReferencePositiveK ==
    (Returned /\ rin.k >= 1) =>
        \E top_idx \in ArgsortDesc(Len(rin.chunks), CombinedOf(rin)) :
            HitOrdinals = Take(Reference(rin, top_idx), rin.k)

(*********************** claims about the chunker **************************)
Chunked(call) == fin.call = call /\ fout # NoResult

Members(seq) == {seq[i] : i \in DOMAIN seq}
WordSet(text) == Members(SplitWs(text))

\* The artifacts of a document directory as the claim speaks of them.
LayoutYields(doc) ==
    /\ doc.layout.exists
    /\ doc.layout.ok
    /\ \E p \in DOMAIN doc.layout.pages : \E k \in DOMAIN doc.layout.pages[p].elements :
          /\ doc.layout.pages[p].elements[k].label # "section_header"
          /\ Strip(doc.layout.pages[p].elements[k].text) # <<>>
TranslatedAvailable(doc) ==
    doc.translation.exists /\ doc.translation.ok /\ doc.translation.page_texts # <<>>
OriginalAvailable(doc) == doc.page_texts.exists /\ doc.page_texts.ok

Chosen(doc) ==
    IF LayoutYields(doc) THEN "layout"
    ELSE IF TranslatedAvailable(doc) THEN "translation"
    ELSE "original"

\* The non-blank texts an artifact holds, in order (one region or page each).
ArtifactTexts(doc, artifact) ==
    IF artifact = "layout"
    THEN <<Strip(doc.layout.pages[1].elements[1].text)>>
    ELSE IF artifact = "translation"
    THEN [i \in DOMAIN NonBlank(doc.translation.page_texts) |->
             NonBlank(doc.translation.page_texts)[i].text]
    ELSE IF OriginalAvailable(doc)
    THEN [i \in DOMAIN doc.page_texts.pages |-> doc.page_texts.pages[i].text]
    ELSE <<>>

ChunkTexts == [i \in DOMAIN fout.chunks |-> fout.chunks[i].text]

\* C25: for each document, build_index takes all chunks from exactly one
\* artifact, in priority order: the layout if it yields a chunk, otherwise
\* the translated page texts if they exist with page texts, otherwise the
\* original page texts; chunks of two artifacts are never mixed, and the
\* original is used only when no translated page texts are available.
C25_OneArtifact ==
    Chunked("build_index") => ChunkTexts = ArtifactTexts(fin.doc, Chosen(fin.doc))

\* A layout file without regions, a translation and the original side by
\* side: the chunks are those of the translation.
C25_Witness ==
    /\ Chunked("build_index")
    /\ fin.doc.layout.exists
    /\ fin.doc.layout.ok
    /\ ~LayoutYields(fin.doc)
    /\ OriginalAvailable(fin.doc)
    /\ fout.chunks # <<>>
    /\ ChunkTexts = <<WordsText(201, 220)>>

\* The pages of a layout file in ascending page number.
Ascending(pages) ==
    [n \in DOMAIN pages |->
        CHOOSE pg \in {pages[i] : i \in DOMAIN pages} :
            Cardinality({i \in DOMAIN pages : pages[i].page < pg.page}) = n - 1]

RegionsOf(pg) ==
    [k \in DOMAIN pg.elements |->
        [label |-> pg.elements[k].label, text |-> Strip(pg.elements[k].text), page |-> pg.page]]

\* All regions, page by page in ascending page number, their texts stripped.
Regions(pages) == Flatten([n \in DOMAIN pages |-> RegionsOf(Ascending(pages)[n])])

\* Region i is a header: with blank_closes, a header region without text
\* counts as well.
IsHeader(E, i, blank_closes) ==
    E[i].label = "section_header" /\ (blank_closes \/ E[i].text # <<>>)
IsText(E, i) == E[i].label # "section_header" /\ E[i].text # <<>>

\* The most recent header before region i, 0 if none.
HeaderBefore(E, i, blank_closes) ==
    IF \E h \in 1..(i - 1) : IsHeader(E, h, blank_closes)
    THEN Last({h \in 1..(i - 1) : IsHeader(E, h, blank_closes)})
    ELSE 0

\* The section under header g (0: before any header), from its text regions.
SectionOf(E, g, members) ==
    [heading |-> IF g = 0 THEN <<>> ELSE E[g].text,
     text    |-> Join([k \in DOMAIN members |-> E[members[k]].text], <<" ">>),
     page    |-> PageStr(E[members[1]].page)]

SectionUnder(E, g, blank_closes) ==
    SectionOf(E, g, Ordered({i \in DOMAIN E : IsText(E, i)
                                              /\ HeaderBefore(E, i, blank_closes) = g},
                            1, Len(E)))

SectionsFrom(E, headers, blank_closes) ==
    [n \in DOMAIN headers |-> SectionUnder(E, headers[n], blank_closes)]

\* The sections the description gives: one per header (or start of document)
\* that has text regions before the next header, in order.
ExpectedSections(E, blank_closes) ==
    SectionsFrom(E, Ordered({HeaderBefore(E, i, blank_closes) :
                                i \in {j \in DOMAIN E : IsText(E, j)}}, 0, Len(E)),
                 blank_closes)

EmittedSections ==
    [i \in DOMAIN fout.chunks |->
        [heading |-> fout.chunks[i].heading, text |-> fout.chunks[i].text,
         page |-> fout.chunks[i].page]]

Sectioned == Chunked("chunk_from_layout") /\ fin.sectioning

\* C26 as stated: pages are walked in ascending page number and each
\* section_header region closes the current accumulation: every emitted
\* section has the text of the most recent header before its text regions as
\* heading (empty if none), the in-order concatenation of exactly the text
\* regions up to the next header or the end as text, and the first page
\* contributing text as position; the trailing section is flushed.
C26_SectionsAsStated ==
    Sectioned => EmittedSections = ExpectedSections(Regions(fin.layout.pages), TRUE)

\* C26: the same, where a header region whose text is blank closes nothing:
\* it is passed over like a blank text region.
C26_Sections ==
    Sectioned => EmittedSections = ExpectedSections(Regions(fin.layout.pages), FALSE)

\* A layout listed with page 2 before page 1: text before any header and then
\* a header on page 1, two text regions under it on page 2: two sections, the
\* second under the header and positioned on page 2.
C26_Witness ==
    /\ Sectioned
    /\ fin.layout.pages[1].page = 2
    /\ Len(fout.chunks) = 2
    /\ fout.chunks[1].heading = <<>>
    /\ fout.chunks[2].heading = Word(12)
    /\ fout.chunks[2].text = Word(21) \o <<" ">> \o Word(22)
    /\ fout.chunks[2].page = <<"2">>

\* The words of the page or of the layout's sections the call was made on.
InputWords ==
    IF fin.call = "chunk_text" THEN SplitWs(fin.text)
    ELSE SplitWs(fin.layout.pages[1].elements[1].text)
             \o SplitWs(fin.layout.pages[2].elements[1].text)

Windowed == Chunked("chunk_text") \/ (Chunked("chunk_from_layout") /\ ~fin.sectioning)

\* No word of a text of 20 or more words is lost.
NoWordLost ==
    Len(InputWords) >= MIN_CHUNK_WORDS =>
        Members(InputWords) \subseteq UNION {WordSet(fout.chunks[j].text) : j \in DOMAIN fout.chunks}

SharedWords(j) == WordSet(fout.chunks[j].text) \cap WordSet(fout.chunks[j + 1].text)

\* C29 as stated: with window 350, overlap 50 and minimum 20, every word of a
\* page or section of at least 20 words is in an emitted chunk, and
\* consecutive emitted windows share exactly the 50 overlap words.
C29_NoTextLostAsStated ==
    Windowed =>
        /\ NoWordLost
        /\ \A j \in 1..(Len(fout.chunks) - 1) : Cardinality(SharedWords(j)) = CHUNK_OVERLAP

\* C29: every word of a page or section of at least 20 words is in an emitted
\* chunk, and consecutive emitted windows share the first 50 words of the
\* later window, or all of the later window when it has fewer than 50.
C29_NoTextLost ==
    Windowed =>
        /\ NoWordLost
        /\ \A j \in 1..(Len(fout.chunks) - 1) :
              /\ Cardinality(SharedWords(j))
                    = Min(CHUNK_OVERLAP, WordCount(fout.chunks[j + 1].text))
              /\ SharedWords(j) =
                    Members(SubSeq(SplitWs(fout.chunks[j + 1].text), 1,
                                    Min(CHUNK_OVERLAP, WordCount(fout.chunks[j + 1].text))))

\* A page of 319 words: the trailing window of 19 words was dropped and the
\* one chunk emitted holds every word.
C29_Witness ==
    /\ Chunked("chunk_text")
    /\ Len(InputWords) = CHUNK_WORDS - CHUNK_OVERLAP + MIN_CHUNK_WORDS - 1
    /\ Len(fout.chunks) = 1
    /\ NoWordLost

\* The words of the text regions of the page with position page_str.
WordsOnPage(pages, page_str) ==
    UNION { UNION { WordSet(pages[p].elements[k].text) :
                      k \in {n \in DOMAIN pages[p].elements :
                                pages[p].elements[n].label # "section_header"} } :
              p \in {q \in DOMAIN pages : PageStr(pages[q].page) = page_str} }

\* C30: every chunk's position is a page on which part of the chunk's text
\* occurs, also for the sub-windows of a long section that spans pages and
\* for layouts without section headers.
C30_PositionOnOwnPage ==
    Chunked("chunk_from_layout") =>
        \A j \in DOMAIN fout.chunks :
            WordSet(fout.chunks[j].text)
                \cap WordsOnPage(fin.layout.pages, fout.chunks[j].page) # {}

(******************* claims about the context assembler ********************)
\* C9: the block returned by format_context, citation labels and separators
\* included, has at most max_words words.
C9_BudgetRespected ==
    (fin.call = "format_context" /\ fout # NoResult)
        => WordCount(fout.block) <= fin.max_words

TitleAvailable(it)  == it # NoItem /\ SplitWs(it.title) # <<>>
AuthorAvailable(it) == it # NoItem /\ SplitWs(it.authors) # <<>>
YearAvailable(it)   == it # NoItem /\ SplitWs(it.year) # <<>>

\* C10: the citation label equals the document id only when the document has
\* neither a title nor author/year metadata; with a title or an author
\* available the label is never the raw document id.
C10_LabelNotRawId ==
    (fin.call = "_short_label" /\ fout # NoResult /\ fout.label = fin.h.key)
        => /\ ~TitleAvailable(fin.inv_item)
           /\ ~AuthorAvailable(fin.inv_item)
           /\ ~YearAvailable(fin.inv_item)

\* A document with a title and no author got a label taken from the title.
C10_Witness ==
    /\ fin.call = "_short_label"
    /\ fout # NoResult
    /\ TitleAvailable(fin.inv_item)
    /\ ~AuthorAvailable(fin.inv_item)
    /\ fout.label # fin.h.key

\* The words of the texts of the first n hits.
RECURSIVE HitWords(_, _)
HitWords(hits, n) == IF n = 0 THEN 0 ELSE HitWords(hits, n - 1) + WordCount(hits[n].text)

\* The number of leading hits that fit whole into max_words.
WholeCount(hits, max_words) ==
    Last({m \in 0..Len(hits) : HitWords(hits, m) <= max_words})

WholeBlock(h)  == DocLabel(h) \o <<"\n">> \o h.text
CutBlock(h, r) == DocLabel(h) \o <<"\n">> \o Join(Take(SplitWs(h.text), r), <<" ">>) \o <<"...">>

\* The packing as a prefix of the hit list: m hits whole, then the next hit cut
\* to the r words that remain when there is a next hit and r >= min_cut.
PrefixPacked(hits, m, r, min_cut) ==
    [i \in 1..m |-> WholeBlock(hits[i])]
        \o (IF m < Len(hits) /\ r >= min_cut THEN <<CutBlock(hits[m + 1], r)>> ELSE <<>>)

PackedPrefix(hits, max_words, min_cut) ==
    Join(PrefixPacked(hits, WholeCount(hits, max_words),
                      max_words - HitWords(hits, WholeCount(hits, max_words)), min_cut),
         <<"\n", "\n", "---", "\n", "\n">>)

Formatted == fin.call = "format_context" /\ fout # NoResult

\* C27 as stated: format_context packs a prefix of the ranked hits in order,
\* whole while they fit; the first hit that would exceed max_words is included
\* cut to exactly the remaining word budget and packing stops; every later hit
\* is dropped.
C27_PrefixPackingAsStated ==
    Formatted => fout.block = PackedPrefix(fin.hits, fin.max_words, 1)

\* C27: the same, except that the first hit that would exceed max_words is
\* included (cut to exactly the remaining budget) only when at least 50 words
\* remain, and is dropped with all later hits otherwise.
C27_PrefixPacking ==
    Formatted => fout.block = PackedPrefix(fin.hits, fin.max_words, MIN_REMAINING)

\* Two hits of 20 and 60 words packed into 70 words: the first whole, the
\* second cut to its first 50 words.
C27_Witness ==
    /\ Formatted
    /\ fin.max_words = MIN_REMAINING + WordUnit
    /\ Len(fin.hits) = 2
    /\ WordCount(fin.hits[1].text) = WordUnit
    /\ WordCount(fin.hits[2].text) = 3 * WordUnit
    /\ fout.block = WholeBlock(fin.hits[1]) \o <<"\n", "\n", "---", "\n", "\n">>
                        \o CutBlock(fin.hits[2], MIN_REMAINING)

(************************ claims about /api/chat ***************************)
TypeAt(i) == chat.events[i].type
DoneCount == Cardinality({i \in DOMAIN chat.events : TypeAt(i) = "done"})

\* C1: every /api/chat invocation that streams (generator succeeds, generator
\* raises mid-stream, no API key) eventually emits exactly one done event,
\* and no event of any type follows it.
C1_StreamTermination ==
    /\ [](DoneCount <= 1)
    /\ [](\A i \in DOMAIN chat.events : TypeAt(i) = "done" => i = Len(chat.events))
    /\ [][chat.pc \in {"done", "closed"} /\ chat'.pc \notin {"idle", "rejected", "start"}
            => chat'.events = chat.events]_vars
    /\ (chat.pc = "start") ~> (chat.pc = "closed" /\ DoneCount = 1)

\* A stream whose generator raised after a token has ended with done.
C1_Witness ==
    /\ chat.pc = "closed"
    /\ Len(chat.events) = 4
    /\ TypeAt(4) = "done"
    /\ chat.events[3].text = "Error (provider)"

\* C2: the first event of a stream is the sources event, there is exactly one,
\* every token follows it, done comes last, and the generator backend is not
\* invoked before the sources event has been emitted.
C2_SourcesFirst ==
    /\ \A i \in DOMAIN chat.events :
          /\ (TypeAt(i) = "sources") <=> (i = 1)
          /\ TypeAt(i) = "done" => i = Len(chat.events)
    /\ chat.invoked => (chat.events # <<>> /\ TypeAt(1) = "sources")
    /\ chat.pc \in {"sources", "streaming", "errored", "nokey", "done", "closed"}
          => (chat.events # <<>> /\ TypeAt(1) = "sources")

\* A finished stream: sources, a generated token, done.
C2_Witness ==
    /\ chat.pc = "closed"
    /\ chat.invoked
    /\ Len(chat.events) = 3
    /\ TypeAt(1) = "sources" /\ TypeAt(2) = "token" /\ TypeAt(3) = "done"
    /\ chat.events[1].text # <<>>

ErrorAt(j) == TypeAt(j) = "token" /\ chat.events[j].text = "Error (provider)"

\* C13: if the generator backend raises after forwarding n >= 0 tokens, the
\* stream is the sources event, those n tokens in the order produced, one
\* token carrying the error message, then done; no generated token follows
\* the error token, and the stream goes on to its end.
C13_ErrorTokenFinal ==
    /\ [](\A j \in DOMAIN chat.events :
            ErrorAt(j) =>
               /\ TypeAt(1) = "sources"
               /\ j = chat.ntok + 2
               /\ \A i \in 2..(j - 1) :
                     TypeAt(i) = "token" /\ chat.events[i].text = Fragment(i - 1)
               /\ Len(chat.events) <= j + 1
               /\ Len(chat.events) = j + 1 => TypeAt(j + 1) = "done"
               /\ chat.pc \in {"errored", "done", "closed"})
    /\ (chat.pc = "errored") ~>
          (chat.pc = "closed" /\ ErrorAt(Len(chat.events) - 1)
                              /\ TypeAt(Len(chat.events)) = "done")

\* The backend raised after two fragments, and the stream has ended.
C13_Witness ==
    /\ chat.pc = "closed"
    /\ Len(chat.events) = 5
    /\ chat.events[2].text = "fragment 1"
    /\ chat.events[3].text = "fragment 2"
    /\ ErrorAt(4)
    /\ TypeAt(5) = "done"

\* C16: over a sequence of /api/chat requests served with no generator
\* credential configured, the configuration error is reported once, at first
\* use, and not again on later requests.
C16_ConfigErrorReportedOnce == reported <= 1

(********************* claims about the query endpoints ********************)
\* C12: an empty query (or one empty after trimming) is rejected before
\* retrieval on /api/search and /api/chat: retrieve is never called with it.
C12_EmptyQueryRejected ==
    /\ chat.pc \notin {"idle", "rejected"} => Strip(chat.query) # <<>>
    /\ rin.call = "search" => Strip(rin.query) # <<>>

(********************** claims about the index build ***********************)
\* The lexical index and the matrix of the tuple ix have one entry per chunk,
\* each derived from the text of the chunk at its ordinal.
IndexAligned(ix) ==
    /\ Len(ix.bm25) = Len(ix.chunks)
    /\ \A i \in DOMAIN ix.chunks : ix.bm25[i] = FindTokens(ix.chunks[i].text)
    /\ ix.embeddings.present =>
          /\ Len(ix.embeddings.rows) = Len(ix.chunks)
          /\ \A i \in DOMAIN ix.chunks : ix.embeddings.rows[i] = EmbedRow(ix.chunks[i].text)

\* C3: after every index build, fresh or loaded from the cache, the lexical
\* index and the semantic matrix (when present) have exactly len(chunks)
\* entries, and entry i of both was derived from the text of chunks[i].
C3_IndexAligned == builds > 0 => IndexAligned(index)

\* C11: every chunk produced at index-build time, by chunk_from_layout and by
\* chunk_text alike, has at least 20 whitespace-separated words.
C11_MinChunkWords ==
    builds > 0 =>
        \A i \in DOMAIN index.chunks : WordCount(index.chunks[i].text) >= MIN_CHUNK_WORDS

\* The latest build had to embed the chunks (embeddings requested, chunks
\* found, no cache hit) and the embedding library or the save failed: no cache
\* file for these chunks was left.
EmbeddingFailed ==
    /\ builds > 0
    /\ use_emb
    /\ index.chunks # <<>>
    /\ ~index.loaded
    /\ ~(emb_cache.state = "good"
          /\ emb_cache.fingerprint = _chunks_fingerprint(index.chunks))

ServedByLatest == rout # NoResult /\ rout.build = builds

EmbeddingsBuilt ==
    /\ builds' = builds + 1
    /\ use_emb
    /\ index'.chunks # <<>>

CacheHit(cache, fingerprint) == cache.state = "good" /\ cache.fingerprint = fingerprint

\* What a call that misses leaves: the new matrix cached under the new
\* fingerprint and returned, or nothing returned and the file as given by
\* after_failure.
Recomputed(fingerprint, after_failure) ==
    \/ /\ index'.embeddings.present
       /\ emb_cache'.state = "good"
       /\ emb_cache'.fingerprint = fingerprint
       /\ emb_cache'.embeddings = index'.embeddings.rows
       /\ index'.embeddings.rows = Embed(index'.chunks)
    \/ /\ ~index'.embeddings.present
       /\ emb_cache' \in after_failure

CacheContract(fingerprint, after_failure) ==
    /\ index'.loaded <=> CacheHit(emb_cache, fingerprint)
    /\ CacheHit(emb_cache, fingerprint) =>
          /\ index'.embeddings = [present |-> TRUE, rows |-> emb_cache.embeddings]
          /\ emb_cache' = emb_cache
    /\ ~CacheHit(emb_cache, fingerprint) => Recomputed(fingerprint, after_failure)

C19_StatusWritesSafe ==
    /\ \A d \in Docs : tasks[d].res # "raised"
    /\ mainp.pc # "crashed"
    /\ job.state = "finished" =>
          \A d \in Docs : tasks[d].pc = "collected" => files.status[d] \in Terminal

\* C20: when an interrupted run is followed by a run without --force that
\* finishes, every document that has page_texts.json (and is skipped for it)
\* is fully extracted: layout_elements.json and meta.json are present and the
\* inventory entry is flagged extracted.
C20_ResumeSafe ==
    (job.state = "finished" /\ job.prev = "interrupted") =>
        \A d \in Docs :
           d \in files.pt => (d \in files.le /\ d \in files.meta /\ d \in files.extracted)

(*********************** claims about 00_stage_pdfs ************************)
\* inventory.json is a complete file whose every item is as some run left it.
InventoryComplete == stage.disk.inv.state = "complete"

\* C21: across any sequence of runs, with or without --force, interrupted at
\* any point, inventory.json on disk is always a complete version, and an item
\* is skipped as already_staged only if its PDF is a completely written
\* download whose provenance is recorded in inventory.json.
C21_StageRerunSafe ==
    /\ InventoryComplete
    /\ \A i \in DOMAIN StageItems :
          stage.p.skipped[i] # "no" =>
              /\ stage.p.skipped[i] = "complete"
              /\ stage.disk.inv.items[i] # 0

(************************ claims about 08_translate ************************)
\* C28: a page that was sent for translation and is missing from the
\* response, or whose batch failed, is retried by a later run without
\* --force: translate_doc never takes translation.json for complete
\* ("already translated") while such a page has not been sent again.
C28_MissingPagesRetried ==
    tr.p.result = "already" => tr.pending = {}

(********************* claims about the resident index *********************)
Answered(t) == threads[t].pc = "respond" /\ threads[t].kind \in {"search", "chat"}

\* C4: under any interleaving of requests that call _ensure_index, a request
\* that reads the chunk list, the lexical index and the semantic matrix
\* observes three values produced by one and the same build_index call.
C4_OneBuildObserved ==
    \A t \in DOMAIN threads :
       Answered(t) =>
          /\ threads[t].got.CHUNKS.gen > 0
          /\ threads[t].got.BM25_INDEX.gen = threads[t].got.CHUNKS.gen
          /\ threads[t].got.EMBEDDINGS.gen = threads[t].got.CHUNKS.gen

====
